---- MODULE Spec2Model ----
(***************************************************************************)
(* Playback engine of agent-replay (src/src/components/ChatContainer.tsx)  *)
(* as a state machine over timers and user actions.                        *)
(*                                                                         *)
(* Role names are those of the source: the placeholder the specification   *)
(* calls thinking_animation is role "thinking" here, an assistant or       *)
(* tool_call message is role "model" (without / with a functionCall part), *)
(* a tool_result is role "system".                                         *)
(* Indices (currentIndexRef, the loop variable i) are 0-based as in the    *)
(* source; sequence accesses add 1.                                        *)
(***************************************************************************)
EXTENDS Integers, Sequences, FiniteSets, TLC

\* ---- bounds of the model -------------------------------------------------
MaxLen == 2          \* raw messages per conversation
MaxTimers == 2       \* timers pending at once
MaxDisplayed == 4    \* entries in displayedHistory
MaxSteps == 3        \* step actions counted by the step log
MaxPages == 2        \* pages of the chat history asked for

null == 0

\* ---- messages (src/src/types/chat.ts, ChatPart / ChatMessageType) --------
TextPart == [text |-> TRUE, functionCall |-> FALSE, functionResponse |-> FALSE]
FunctionCallPart == [text |-> FALSE, functionCall |-> TRUE, functionResponse |-> FALSE]
FunctionResponsePart == [text |-> FALSE, functionCall |-> FALSE, functionResponse |-> TRUE]

\* The shapes of raw message the conversations are built from.
UserText == [role |-> "user", parts |-> <<TextPart>>]
UserFunctionResponse == [role |-> "user", parts |-> <<FunctionResponsePart>>]
ModelText == [role |-> "model", parts |-> <<TextPart>>]
ModelFunctionCall == [role |-> "model", parts |-> <<FunctionCallPart>>]

Shapes == { UserText, UserFunctionResponse, ModelText, ModelFunctionCall }

\* A message of the transformed history.  id is the position of the raw
\* message it is (0 for a synthetic entry); functionCallToApprove is the id
\* of the message whose functionCall is to be approved (0 when absent);
\* approval is the approval status ("none" when absent).
ChatMessage(id, role, parts) ==
  [id |-> id, role |-> role, parts |-> parts,
   functionCallToApprove |-> 0, approval |-> "none"]

conversationOf(shapes) ==
  [k \in 1..Len(shapes) |-> ChatMessage(k, shapes[k].role, shapes[k].parts)]

Conversations ==
  UNION { { conversationOf(f) : f \in [1..n -> Shapes] } : n \in 0..MaxLen }

\* message.parts.some(part => ...) of lines 64, 73 (and 253) and 89
hasFunctionResponse(message) ==
  \E k \in 1..Len(message.parts) : message.parts[k].functionResponse

hasFunctionCall(message) ==
  \E k \in 1..Len(message.parts) : message.parts[k].functionCall

hasPlainText(message) ==
  \E k \in 1..Len(message.parts) :
    message.parts[k].text /\ ~message.parts[k].functionCall

\* ---- transformChatHistory (ChatContainer.tsx 57-103) ---------------------
thinkingMessage == ChatMessage(0, "thinking", <<>>)

approvalMessage(message) ==
  [id |-> 0, role |-> "approval", parts |-> <<>>,
   functionCallToApprove |-> message.id, approval |-> "pending"]

transformMessage(message) ==
  IF message.role = "user" /\ hasFunctionResponse(message)
    THEN << [message EXCEPT !.role = "system"] >>
  ELSE IF message.role = "model" /\ hasFunctionCall(message)
    THEN << approvalMessage(message), message >>
  ELSE IF message.role = "model" /\ hasPlainText(message)
    THEN << thinkingMessage, message >>
  ELSE << message >>

RECURSIVE transformFrom(_, _)
transformFrom(rawHistory, i) ==
  IF i > Len(rawHistory) THEN <<>>
  ELSE transformMessage(rawHistory[i]) \o transformFrom(rawHistory, i + 1)

transformChatHistory(rawHistory) == transformFrom(rawHistory, 1)

\* ---- state ---------------------------------------------------------------
VARIABLES
  loading,                 \* useState loading: the fetch has not completed
  chatHistory,             \* useState chatHistory: the raw conversation
  transformedHistoryRef,   \* the expanded sequence
  displayedHistory,        \* useState displayedHistory
  currentMessageIndex,     \* useState currentMessageIndex, updates queued included
  currentIndexRef,         \* useRef currentIndexRef
  isPausedRef,             \* useRef isPausedRef (isPaused mirrors it)
  animationInProgressRef,  \* useRef (animationInProgress mirrors it)
  animationTimeoutRef,     \* id of the timer of the last wait, or null
  timers,                  \* the timers set and neither fired nor cleared
  displaySettings,         \* the DisplaySettings prop
  log,                     \* record of the last step / settings action
  rendered,                \* the state as last rendered: what the handlers see
  effects,                 \* runs of the effect of 52-54 not yet done
  paging,                  \* useState page, hasMore, initialized; the fetch
  unifiedSyncLane,         \* the React of the build renders a click's updates
                           \* together with those queued before it
  adapter                  \* outside the player: an adapter, the API or the App

vars == << loading, chatHistory, transformedHistoryRef, displayedHistory,
           currentMessageIndex, currentIndexRef, isPausedRef,
           animationInProgressRef, animationTimeoutRef, timers,
           displaySettings, log, rendered, effects, paging, unifiedSyncLane,
           adapter >>

defaultDisplaySettings ==
  [showThinking |-> TRUE, showToolCalls |-> TRUE, showToolResults |-> TRUE,
   playbackSpeed |-> 1]

\* What the last step or settings action was, whether it was accepted (did
\* not return early), the play state shown, the cursor and whether it found
\* playback in progress, and how many step actions there have been
\* (inOrder: no step forward has followed a step backward).
NoLog == [event |-> "none", accepted |-> FALSE, during |-> "idle", at |-> 0,
          active |-> FALSE, forward |-> 0, backward |-> 0, inOrder |-> TRUE]

\* no transcript is being parsed: the lines of the file as read, the lines
\* the loop goes over, the index of the line the loop is at (0: not
\* started), the messages pushed so far; the text handed to
\* extractUserContent, what it was turned into, and how many times the
\* extraction has been applied
idleAdapter ==
  [content |-> <<>>, lines |-> <<>>, line |-> 0, messages |-> <<>>,
   text |-> <<>>, cleaned |-> <<>>, extractions |-> 0]

\* the state a render shows, of the values the handlers of 106-144, 362-366
\* and 455-530 read from their closure
Rendering(isLoading, history, pages, inProgress, isPaused, index) ==
  [loading |-> isLoading, chatHistory |-> history, page |-> pages.page,
   hasMore |-> pages.hasMore, animationInProgress |-> inProgress,
   isPaused |-> isPaused, currentMessageIndex |-> index]

\* a fetch in flight: the page asked for (312) and the chatHistory of the
\* closure that asked (316)
Fetch(pageNumber, history) == [pageNumber |-> pageNumber, chatHistory |-> history]

\* The source at hand does not say which React the component is built
\* with.  Under a concurrent root, React 18 renders the updates of a click
\* in a lane of their own and leaves the updates a timer or a fetch has
\* queued to the render scheduled for them; React 19 renders both together
\* when the click returns.  Which of the two it is is fixed by the build.
Reacts == BOOLEAN

\* after the first render and the effect of 349-351: loading, page 1 asked for
reactIdle ==
  /\ paging = [page |-> 1, hasMore |-> TRUE, initialized |-> FALSE,
               fetches |-> << Fetch(1, <<>>) >>]
  /\ rendered = Rendering(TRUE, <<>>, [page |-> 1, hasMore |-> TRUE],
                          FALSE, FALSE, 0)
  /\ effects = <<>>

Init ==
  /\ adapter = idleAdapter
  /\ loading = TRUE
  /\ chatHistory = <<>>
  /\ transformedHistoryRef = <<>>
  /\ displayedHistory = <<>>
  /\ currentMessageIndex = 0
  /\ currentIndexRef = 0
  /\ isPausedRef = FALSE
  /\ animationInProgressRef = FALSE
  /\ animationTimeoutRef = null
  /\ timers = {}
  /\ displaySettings = defaultDisplaySettings
  /\ log = NoLog
  /\ unifiedSyncLane \in Reacts
  /\ reactIdle

\* ---- the part of the state a timer chain works on ------------------------
Frame ==
  [displayedHistory |-> displayedHistory,
   currentMessageIndex |-> currentMessageIndex,
   currentIndexRef |-> currentIndexRef,
   animationInProgressRef |-> animationInProgressRef,
   animationTimeoutRef |-> animationTimeoutRef,
   timers |-> timers,
   transformedHistory |-> transformedHistoryRef]

\* The callback of a timer writes the refs at once and queues its state
\* updates; React renders them in a later task.
Commit(f) ==
  /\ displayedHistory' = f.displayedHistory
  /\ currentMessageIndex' = f.currentMessageIndex
  /\ currentIndexRef' = f.currentIndexRef
  /\ animationInProgressRef' = f.animationInProgressRef
  /\ animationTimeoutRef' = f.animationTimeoutRef
  /\ timers' = f.timers
  /\ UNCHANGED << rendered, effects, paging >>

\* The updates of a click are rendered before the click returns.  next is
\* the state rendered before with the values the handler has set: it is what
\* the render shows when the updates a timer or a fetch has queued stay
\* queued for the later render; with unifiedSyncLane the render shows every
\* update queued so far.  A run of the effect of 52-54 left over from an
\* earlier render is done first; the effect then runs again when the index
\* rendered has changed.  ref is what the handler left in currentIndexRef.
renderSync(next, ref) ==
  LET shown == IF unifiedSyncLane
                 THEN Rendering(loading', chatHistory', paging',
                                animationInProgressRef', isPausedRef',
                                currentMessageIndex')
                 ELSE next
  IN  /\ rendered' = shown
      /\ currentIndexRef' =
           IF shown.currentMessageIndex # rendered.currentMessageIndex
             THEN shown.currentMessageIndex
           ELSE IF effects # <<>> THEN effects[1] ELSE ref
      /\ effects' = <<>>

\* ---- React renders the updates queued by a timer or a fetch --------------
render ==
  /\ rendered # Rendering(loading, chatHistory, paging, animationInProgressRef,
                          isPausedRef, currentMessageIndex)
  /\ rendered' = Rendering(loading, chatHistory, paging, animationInProgressRef,
                           isPausedRef, currentMessageIndex)
  /\ currentIndexRef' = IF effects # <<>> THEN effects[1] ELSE currentIndexRef
  /\ effects' = IF currentMessageIndex # rendered.currentMessageIndex
                  THEN << currentMessageIndex >> ELSE <<>>
  /\ log' = NoLog
  /\ UNCHANGED << loading, chatHistory, transformedHistoryRef, displayedHistory,
                  currentMessageIndex, isPausedRef, animationInProgressRef,
                  animationTimeoutRef, timers, displaySettings, paging >>
  /\ UNCHANGED << adapter, unifiedSyncLane >>

\* ---- the effect of 52-54, run after the render that changed the index ----
keepRefInSync ==
  /\ effects # <<>>
  /\ currentIndexRef' = effects[1]
  /\ effects' = <<>>
  /\ log' = NoLog
  /\ UNCHANGED << loading, chatHistory, transformedHistoryRef, displayedHistory,
                  currentMessageIndex, isPausedRef, animationInProgressRef,
                  animationTimeoutRef, timers, displaySettings, rendered,
                  paging >>
  /\ UNCHANGED << adapter, unifiedSyncLane >>

\* window.setTimeout returns an id that is in use by no pending timer; the
\* id still held by animationTimeoutRef is never handed out again.
newTimerId(f) ==
  LET used == { t.id : t \in f.timers } \cup { f.animationTimeoutRef }
  IN  CHOOSE n \in 1..(MaxTimers + 2) :
        n \notin used /\ \A m \in 1..(n - 1) : m \in used

setTimeout(f, kind, i, phase) ==
  [id |-> newTimerId(f), kind |-> kind, i |-> i, phase |-> phase,
   superseded |-> FALSE,
   transformedHistory |-> IF kind = "wait" THEN f.transformedHistory ELSE <<>>]

\* clearTimeout(animationTimeoutRef.current); animationTimeoutRef.current = null
\* (lines 109-112 and 135-138).  The timers that stay pending are marked as
\* superseded by the action that called it.
clearAnimationTimeout(pending) ==
  { [t EXCEPT !.superseded = TRUE] :
      t \in { u \in pending : u.id # animationTimeoutRef } }

\* ---- waitWithPauseCheck (147-159): set the timer, remember its id --------
waitWithPauseCheck(f, i, phase) ==
  LET t == setTimeout(f, "wait", i, phase)
  IN  [f EXCEPT !.timers = @ \cup {t}, !.animationTimeoutRef = t.id]

\* ---- continueAnimation (162-272) -----------------------------------------
\* afterLoop that leaves the animation in progress
afterLoopKeepsPlaying(f) == f

\* lines 267-271, after the loop
afterLoop(f) ==
  IF isPausedRef THEN f
  ELSE [f EXCEPT !.animationInProgressRef = FALSE, !.currentMessageIndex = 0]

\* lines 166-188, 209-216, 245-264: one pass of the loop body from index i up
\* to its first await (or to the end of the function)
loopFrom(f, i) ==
  LET n == Len(f.transformedHistory) IN
  IF i >= n \/ isPausedRef THEN afterLoop(f)
  ELSE
    LET message == f.transformedHistory[i + 1]
        g == [f EXCEPT !.currentMessageIndex = i, !.currentIndexRef = i,
                       !.displayedHistory = Append(@, message)]
    IN  IF message.role = "thinking" THEN waitWithPauseCheck(g, i, "thinking")
        ELSE IF message.role = "approval" THEN waitWithPauseCheck(g, i, "pending")
        ELSE IF i < n - 1 THEN waitWithPauseCheck(g, i, "regular")
        ELSE afterLoop(g)

\* replaceLastThinking that pushes the message and keeps the placeholder
replaceLastThinkingAppending(prev, nextMessage) == Append(prev, nextMessage)

\* lines 194-204: replace the last "thinking" entry, or push
replaceLastThinking(prev, nextMessage) ==
  LET found == { k \in 1..Len(prev) : prev[k].role = "thinking" }
  IN  IF found = {} THEN Append(prev, nextMessage)
      ELSE LET actualIdx == CHOOSE k \in found : \A j \in found : j <= k
           IN  [prev EXCEPT ![actualIdx] = nextMessage]

\* lines 219-225 and 234-240: replace the last entry when there is one
replaceLast(prev, message) ==
  IF Len(prev) > 0 THEN [prev EXCEPT ![Len(prev)] = message] ELSE prev

\* afterWait that writes the tool call over the pending card at once
afterWaitWithoutApproved(f, i, phase) ==
  LET n == Len(f.transformedHistory)
      hasNext == i + 1 < n
      nextMessage == f.transformedHistory[i + 2]
  IN  CASE phase \in { "thinking", "pending", "approved" } ->
             IF hasNext
               THEN loopFrom([f EXCEPT
                        !.displayedHistory =
                           IF phase = "thinking"
                             THEN replaceLastThinking(@, nextMessage)
                             ELSE replaceLast(@, nextMessage),
                        !.currentMessageIndex = i + 1,
                        !.currentIndexRef = i + 1], i + 2)
               ELSE loopFrom(f, i + 1)
        [] OTHER -> loopFrom(f, i + 1)

\* the continuation of a wait that resolved true, by the await it was
afterWait(f, i, phase) ==
  LET n == Len(f.transformedHistory)
      message == f.transformedHistory[i + 1]
      hasNext == i + 1 < n
      nextMessage == f.transformedHistory[i + 2]
  IN  CASE phase = "thinking" ->
             IF hasNext
               THEN loopFrom([f EXCEPT
                        !.displayedHistory = replaceLastThinking(@, nextMessage),
                        !.currentMessageIndex = i + 1,
                        !.currentIndexRef = i + 1], i + 2)
               ELSE loopFrom(f, i + 1)
        [] phase = "pending" ->
             waitWithPauseCheck(
               [f EXCEPT !.displayedHistory =
                   replaceLast(@, [message EXCEPT !.approval = "approved"])],
               i, "approved")
        [] phase = "approved" ->
             IF hasNext
               THEN loopFrom([f EXCEPT
                        !.displayedHistory = replaceLast(@, nextMessage),
                        !.currentMessageIndex = i + 1,
                        !.currentIndexRef = i + 1], i + 2)
               ELSE loopFrom(f, i + 1)
        [] OTHER -> loopFrom(f, i + 1)

\* continueAnimation called afresh: it takes the history that is in
\* transformedHistoryRef now (163) and keeps to it; the loop starts at
\* currentIndexRef.current
continueAnimation(f) ==
  loopFrom([f EXCEPT !.transformedHistory = transformedHistoryRef],
           f.currentIndexRef)

\* ---- fetchChatHistory (304-347): the response arrives -------------------
\* [...chatHistory, ...data.messages] (316): the messages of the page after
\* those of the closure; id is the position in the raw history
withPage(history, messages) ==
  history \o [k \in 1..Len(messages) |->
                [messages[k] EXCEPT !.id = Len(history) + k]]

\* response ok (312-326); the histories of the model stay within MaxLen once
\* a page has been added
fetchChatHistory(messages, more) ==
  /\ paging.fetches # <<>>
  /\ LET newHistory == withPage(Head(paging.fetches).chatHistory, messages)
     IN  /\ Head(paging.fetches).chatHistory = <<>> \/ Len(newHistory) <= MaxLen
         /\ chatHistory' = newHistory
         /\ transformedHistoryRef' = transformChatHistory(newHistory)
  /\ loading' = FALSE
  /\ paging' = [paging EXCEPT !.hasMore = more, !.initialized = TRUE,
                              !.fetches = Tail(@)]
  /\ log' = NoLog
  /\ UNCHANGED << displayedHistory, currentMessageIndex, currentIndexRef,
                  isPausedRef, animationInProgressRef, animationTimeoutRef,
                  timers, displaySettings, rendered, effects >>
  /\ UNCHANGED << adapter, unifiedSyncLane >>

\* the request failed and chat_history.json was read instead (327-340)
fetchChatHistoryLocal(localMessages) ==
  /\ paging.fetches # <<>>
  /\ chatHistory' = localMessages
  /\ transformedHistoryRef' = transformChatHistory(localMessages)
  /\ loading' = FALSE
  /\ paging' = [paging EXCEPT !.hasMore = FALSE, !.initialized = TRUE,
                              !.fetches = Tail(@)]
  /\ log' = NoLog
  /\ UNCHANGED << displayedHistory, currentMessageIndex, currentIndexRef,
                  isPausedRef, animationInProgressRef, animationTimeoutRef,
                  timers, displaySettings, rendered, effects >>
  /\ UNCHANGED << adapter, unifiedSyncLane >>

\* the request and the read of chat_history.json both failed (341-345)
fetchChatHistoryFailed ==
  /\ paging.fetches # <<>>
  /\ loading' = FALSE
  /\ paging' = [paging EXCEPT !.initialized = TRUE, !.fetches = Tail(@)]
  /\ log' = NoLog
  /\ UNCHANGED << chatHistory, transformedHistoryRef, displayedHistory,
                  currentMessageIndex, currentIndexRef, isPausedRef,
                  animationInProgressRef, animationTimeoutRef, timers,
                  displaySettings, rendered, effects >>
  /\ UNCHANGED << adapter, unifiedSyncLane >>

\* ---- handleLoadMore (362-366), the Load More button (459-465) ------------
\* fetchChatHistory(page + 1) up to its await: the test of 308 is false for
\* a page after the first, loading is set (313)
handleLoadMore ==
  /\ rendered.hasMore /\ ~rendered.loading /\ ~rendered.animationInProgress
  /\ rendered.page < MaxPages
  /\ paging' = [paging EXCEPT
                  !.page = rendered.page + 1,
                  !.fetches = Append(@, Fetch(rendered.page + 1,
                                              rendered.chatHistory))]
  /\ loading' = TRUE
  /\ log' = NoLog
  /\ UNCHANGED << chatHistory, transformedHistoryRef, displayedHistory,
                  currentMessageIndex, isPausedRef, animationInProgressRef,
                  animationTimeoutRef, timers, displaySettings >>
  /\ UNCHANGED << adapter, unifiedSyncLane >>
  /\ renderSync([rendered EXCEPT !.page = rendered.page + 1,
                                 !.loading = TRUE], currentIndexRef)

\* ---- pauseAnimation (106-113), from the Play/Pause button (522-524) ------
pauseAnimation ==
  /\ ~rendered.loading
  /\ rendered.animationInProgress /\ ~rendered.isPaused
  /\ isPausedRef' = TRUE
  /\ timers' = clearAnimationTimeout(timers)
  /\ animationTimeoutRef' = null
  /\ log' = NoLog
  /\ UNCHANGED << loading, chatHistory, transformedHistoryRef, displayedHistory,
                  currentMessageIndex, animationInProgressRef,
                  displaySettings, paging >>
  /\ UNCHANGED << adapter, unifiedSyncLane >>
  /\ renderSync([rendered EXCEPT !.isPaused = TRUE], currentIndexRef)

\* ---- resumeAnimation (115-124), from the Play/Pause button (525-526) -----
resumeAnimation ==
  /\ ~rendered.loading
  /\ ~(rendered.animationInProgress /\ ~rendered.isPaused)
  /\ rendered.isPaused
  /\ Cardinality(timers) < MaxTimers
  /\ isPausedRef' = FALSE
  /\ timers' = timers \cup { setTimeout(Frame, "resume", 0, "none") }
  /\ log' = NoLog
  /\ UNCHANGED << loading, chatHistory, transformedHistoryRef, displayedHistory,
                  currentMessageIndex, animationInProgressRef,
                  animationTimeoutRef, displaySettings, paging >>
  /\ UNCHANGED << adapter, unifiedSyncLane >>
  /\ renderSync([rendered EXCEPT !.isPaused = FALSE], currentIndexRef)

\* ---- restartAnimation (126-144) with animateConversation (275-294) -------
\* animateConversation's guard (278) is false here: restartAnimation has just
\* cleared animationInProgressRef.
animateConversation(pending) ==
  pending \cup { setTimeout([Frame EXCEPT !.timers = pending,
                                          !.animationTimeoutRef = null],
                            "start", 0, "none") }

restartBody ==
  /\ isPausedRef' = FALSE
  /\ currentMessageIndex' = 0
  /\ displayedHistory' = <<>>
  /\ animationTimeoutRef' = null
  /\ IF Len(transformedHistoryRef) > 0
       THEN /\ animationInProgressRef' = TRUE
            /\ timers' = animateConversation(clearAnimationTimeout(timers))
       ELSE /\ animationInProgressRef' = FALSE
            /\ timers' = clearAnimationTimeout(timers)
  /\ log' = NoLog
  /\ UNCHANGED << loading, chatHistory, transformedHistoryRef, displaySettings,
                  paging >>
  /\ UNCHANGED << adapter, unifiedSyncLane >>
  /\ renderSync([rendered EXCEPT !.isPaused = FALSE,
                                 !.animationInProgress = animationInProgressRef',
                                 !.currentMessageIndex = 0], 0)

\* the Restart button (508), in any state
restartAnimation ==
  /\ ~rendered.loading
  /\ Cardinality(timers) < MaxTimers
  /\ restartBody

\* the Play/Pause button when neither playing nor paused (527-529)
playAnimation ==
  /\ ~rendered.loading
  /\ ~rendered.animationInProgress /\ ~rendered.isPaused
  /\ Cardinality(timers) < MaxTimers
  /\ restartBody

\* ---- timers firing -------------------------------------------------------
timerFrame(t) ==
  [Frame EXCEPT !.timers = timers \ {t},
                !.transformedHistory =
                   IF t.kind = "wait" THEN t.transformedHistory
                   ELSE transformedHistoryRef]

\* the 100 ms timer of animateConversation (294-296)
startTimerFires(t) ==
  /\ t \in timers /\ t.kind = "start"
  /\ Len(displayedHistory) < MaxDisplayed
  /\ Commit(continueAnimation(timerFrame(t)))
  /\ log' = NoLog
  /\ UNCHANGED << loading, chatHistory, transformedHistoryRef, isPausedRef,
                  displaySettings >>
  /\ UNCHANGED << adapter, unifiedSyncLane >>

\* the 0 ms timer of resumeAnimation (119-123)
resumeTimerFires(t) ==
  /\ t \in timers /\ t.kind = "resume"
  /\ Len(displayedHistory) < MaxDisplayed
  /\ IF animationInProgressRef
        /\ currentIndexRef < Len(transformedHistoryRef)
       THEN Commit(continueAnimation(timerFrame(t)))
       ELSE Commit(timerFrame(t))
  /\ log' = NoLog
  /\ UNCHANGED << loading, chatHistory, transformedHistoryRef, isPausedRef,
                  displaySettings >>
  /\ UNCHANGED << adapter, unifiedSyncLane >>

\* the timer of waitWithPauseCheck (149-156) and the rest of the chain
waitTimerFires(t) ==
  /\ t \in timers /\ t.kind = "wait"
  /\ Len(displayedHistory) < MaxDisplayed
  /\ IF animationTimeoutRef = null
       THEN Commit(afterLoop(timerFrame(t)))
       ELSE Commit(afterWait(timerFrame(t), t.i, t.phase))
  /\ log' = NoLog
  /\ UNCHANGED << loading, chatHistory, transformedHistoryRef, isPausedRef,
                  displaySettings >>
  /\ UNCHANGED << adapter, unifiedSyncLane >>

\* ---- the engine of the source --------------------------------------------
\* what chat_history.json holds: nothing, or one message
LocalHistories == { conversationOf(<<>>), conversationOf(<< UserText >>) }

Next ==
  \/ \E messages \in Conversations, more \in BOOLEAN :
       fetchChatHistory(messages, more)
  \/ \E localMessages \in LocalHistories : fetchChatHistoryLocal(localMessages)
  \/ fetchChatHistoryFailed
  \/ handleLoadMore
  \/ restartAnimation
  \/ pauseAnimation
  \/ resumeAnimation
  \/ \E t \in timers : startTimerFires(t)
  \/ \E t \in timers : resumeTimerFires(t)
  \/ \E t \in timers : waitTimerFires(t)
  \/ render
  \/ keepRefInSync

Spec == Init /\ [][Next]_vars

\* the user who only uses the Play/Pause button
PlayNext ==
  \/ \E messages \in Conversations : fetchChatHistory(messages, FALSE)
  \/ playAnimation
  \/ pauseAnimation
  \/ resumeAnimation
  \/ \E t \in timers : startTimerFires(t)
  \/ \E t \in timers : resumeTimerFires(t)
  \/ \E t \in timers : waitTimerFires(t)
  \/ render
  \/ keepRefInSync

PlaySpec == Init /\ [][PlayNext]_vars

\* ---- continuous playback -------------------------------------------------
\* Play is pressed (527-529) and the timers fire; nobody pauses or restarts.
\* The conversations played are one message longer than those of the other
\* specifications, so that a pair is followed by a pair and a further entry.
LongConversations ==
  UNION { { conversationOf(f) : f \in [1..n -> Shapes] } :
            n \in 0..(MaxLen + 1) }

ContinuousNext ==
  \/ \E messages \in LongConversations : fetchChatHistory(messages, FALSE)
  \/ playAnimation
  \/ \E t \in timers : startTimerFires(t)
  \/ \E t \in timers : waitTimerFires(t)
  \/ render
  \/ keepRefInSync

ContinuousSpec == Init /\ [][ContinuousNext]_vars

\* ---- playback started once, timers firing fairly -------------------------
\* the Play button (527-529) pressed on a conversation nothing of which is
\* displayed yet; no user action after it
firstPlay ==
  /\ displayedHistory = <<>>
  /\ playAnimation

OnceNext ==
  \/ \E messages \in LongConversations : fetchChatHistory(messages, FALSE)
  \/ firstPlay
  \/ \E t \in timers : startTimerFires(t)
  \/ \E t \in timers : waitTimerFires(t)
  \/ render
  \/ keepRefInSync

\* a timer that was set and not cleared fires (setTimeout, 149-156 and 294);
\* React renders the updates queued and runs the effects of the render
FairPlaySpec ==
  /\ Init /\ [][OnceNext]_vars
  /\ WF_vars(\E t \in timers : startTimerFires(t))
  /\ WF_vars(\E t \in timers : waitTimerFires(t))
  /\ WF_vars(render)
  /\ WF_vars(keepRefInSync)

\* ---- stepping (ArrowRight / ArrowLeft) -----------------------------------
\* The step handlers are exercised by ChatContainer.test.tsx but are not part
\* of ChatContainer.tsx as present; they follow section 4.6 of the
\* specification.  The cursor (currentIndexRef) is here the number of entries
\* of the expanded sequence that have been applied.  Stepping is modelled on
\* an engine that is not playing.
isPlaceholder(message) == message.role \in {"thinking", "approval"}

canStepForward(cursor) == cursor < Len(transformedHistoryRef)

\* a placeholder followed by its message is resolved in one jump
isPairAt(cursor) ==
  /\ cursor + 1 < Len(transformedHistoryRef)
  /\ isPlaceholder(transformedHistoryRef[cursor + 1])

\* stepShown that shows the next entry, placeholder or not
stepShownNext(cursor) == transformedHistoryRef[cursor + 1]

stepShown(cursor) ==
  IF isPairAt(cursor) THEN transformedHistoryRef[cursor + 2]
  ELSE transformedHistoryRef[cursor + 1]

\* stepAdvance that never jumps over a pair
stepAdvanceOne(cursor) == 1

stepAdvance(cursor) == IF isPairAt(cursor) THEN 2 ELSE 1

\* canStepBackward without its early return
canStepBackwardAlways == TRUE

canStepBackward == Len(displayedHistory) > 0

\* rewindBy that forgets the pair
rewindByOne(cursor) == 1

\* the slot removed was the resolved half of a pair
rewindBy(cursor) ==
  IF cursor >= 2 /\ isPlaceholder(transformedHistoryRef[cursor - 1])
    THEN 2 ELSE 1

withoutLast(prev) ==
  IF Len(prev) = 0 THEN prev ELSE SubSeq(prev, 1, Len(prev) - 1)

\* the title of the Play/Pause button (518), of the state as rendered:
\* Pause, Resume, Play
playState ==
  IF rendered.animationInProgress /\ ~rendered.isPaused THEN "playing"
  ELSE IF rendered.isPaused THEN "paused" ELSE "idle"

stepForward ==
  /\ ~rendered.loading
  /\ ~rendered.animationInProgress
  /\ log.forward < MaxSteps
  /\ UNCHANGED << loading, chatHistory, transformedHistoryRef, isPausedRef,
                  animationInProgressRef, animationTimeoutRef, timers,
                  displaySettings, paging >>
  /\ LET index == IF canStepForward(currentIndexRef)
                    THEN currentIndexRef + stepAdvance(currentIndexRef)
                    ELSE currentIndexRef
     IN  /\ displayedHistory' =
              IF canStepForward(currentIndexRef)
                THEN Append(displayedHistory, stepShown(currentIndexRef))
                ELSE displayedHistory
         /\ currentMessageIndex' =
              IF canStepForward(currentIndexRef) THEN index
              ELSE currentMessageIndex
         /\ renderSync([rendered EXCEPT
                          !.currentMessageIndex = currentMessageIndex'], index)
  /\ log' = [event |-> "stepForward",
             accepted |-> canStepForward(currentIndexRef),
             during |-> playState,
             at |-> currentIndexRef,
             active |-> animationInProgressRef,
             forward |-> log.forward + 1,
             backward |-> log.backward,
             inOrder |-> log.inOrder /\ log.backward = 0]
  /\ UNCHANGED << adapter, unifiedSyncLane >>

stepBackward ==
  /\ ~rendered.loading
  /\ ~rendered.animationInProgress
  /\ log.backward < MaxSteps
  /\ UNCHANGED << loading, chatHistory, transformedHistoryRef, isPausedRef,
                  animationInProgressRef, animationTimeoutRef, timers,
                  displaySettings, paging >>
  /\ LET index == IF canStepBackward
                    THEN currentIndexRef - rewindBy(currentIndexRef)
                    ELSE currentIndexRef
     IN  /\ displayedHistory' =
              IF canStepBackward THEN withoutLast(displayedHistory)
              ELSE displayedHistory
         /\ currentMessageIndex' =
              IF canStepBackward THEN index ELSE currentMessageIndex
         /\ renderSync([rendered EXCEPT
                          !.currentMessageIndex = currentMessageIndex'], index)
  /\ log' = [event |-> "stepBackward",
             accepted |-> canStepBackward,
             during |-> playState,
             at |-> currentIndexRef,
             active |-> animationInProgressRef,
             forward |-> log.forward,
             backward |-> log.backward + 1,
             inOrder |-> log.inOrder]
  /\ UNCHANGED << adapter, unifiedSyncLane >>

\* the conversation of the step tests (ChatContainer.test.tsx 23-27): user,
\* assistant, user
simpleConversation == conversationOf(<< UserText, ModelText, UserText >>)

StepConversations == Conversations \cup { simpleConversation }

StepNext ==
  \/ \E messages \in StepConversations : fetchChatHistory(messages, FALSE)
  \/ render
  \/ stepForward
  \/ stepBackward

StepSpec == Init /\ [][StepNext]_vars

\* ---- a new conversation or new display settings --------------------------
\* App.tsx hands conversation and displaySettings to ChatContainer (230-234);
\* DisplayControls.update (ConversationBrowser.tsx 276) produces the new
\* settings.  What ChatContainer does with a changed prop is not part of
\* ChatContainer.tsx as present and follows sections 3, 4.5 and 4.6 of the
\* specification: cancel, filter, expand again, start from nothing.
Speeds == {1, 2}

\* the conversations handed over as a prop: none, a question with its
\* answer, a tool call with its result, and a question followed by a
\* thinking message
PropsConversations ==
  { conversationOf(<<>>), conversationOf(<< UserText, ModelText >>),
    conversationOf(<< ModelFunctionCall, UserFunctionResponse >>),
    conversationOf(<< UserText, [role |-> "thinking", parts |-> << TextPart >>] >>) }

\* section 4.5 step 1, on the roles of the source: a tool call is a model
\* message with a functionCall part, a tool result a user message with a
\* functionResponse part, a thinking message has role "thinking"
\* isVisible that hides nothing
isVisibleAlways(message, settings) == TRUE

isVisible(message, settings) ==
  /\ settings.showToolCalls
       \/ ~(message.role = "model" /\ hasFunctionCall(message))
  /\ settings.showToolResults
       \/ ~(message.role = "user" /\ hasFunctionResponse(message))
  /\ settings.showThinking \/ message.role # "thinking"

filterVisible(messages, settings) ==
  SelectSeq(messages, LAMBDA message : isVisible(message, settings))

\* resetPlayback that expands the new input and leaves the running chain,
\* the cursor and the displayed list as they are
resetPlaybackKeepingChain(messages, settings, event) ==
  /\ chatHistory' = messages
  /\ displaySettings' = settings
  /\ transformedHistoryRef' = transformChatHistory(filterVisible(messages, settings))
  /\ log' = [NoLog EXCEPT !.event = event, !.accepted = TRUE,
                          !.during = playState, !.at = currentIndexRef,
                          !.active = animationInProgressRef]
  /\ loading' = FALSE
  /\ UNCHANGED << timers, animationTimeoutRef, isPausedRef,
                  animationInProgressRef, displayedHistory,
                  currentMessageIndex, paging >>
  /\ renderSync([rendered EXCEPT !.loading = FALSE, !.chatHistory = messages],
                currentIndexRef)
  /\ UNCHANGED << adapter, unifiedSyncLane >>

resetPlayback(messages, settings, event) ==
  /\ chatHistory' = messages
  /\ displaySettings' = settings
  /\ transformedHistoryRef' = transformChatHistory(filterVisible(messages, settings))
  /\ timers' = {}
  /\ animationTimeoutRef' = null
  /\ isPausedRef' = FALSE
  /\ animationInProgressRef' = FALSE
  /\ currentMessageIndex' = 0
  /\ displayedHistory' = <<>>
  /\ log' = [NoLog EXCEPT !.event = event, !.accepted = TRUE,
                          !.during = playState, !.at = currentIndexRef,
                          !.active = animationInProgressRef]
  /\ loading' = FALSE
  /\ UNCHANGED paging
  /\ renderSync(Rendering(FALSE, messages, paging, FALSE, FALSE, 0), 0)
  /\ UNCHANGED << adapter, unifiedSyncLane >>

\* the first conversation arrives this way too (loading ends)
changeConversation(messages) ==
  /\ loading \/ messages # chatHistory
  /\ resetPlayback(messages, displaySettings, "conversation")

changeVisibility(key) ==
  /\ ~loading
  /\ resetPlayback(chatHistory, [displaySettings EXCEPT ![key] = ~@],
                   "visibility")

changeSpeed(speed) ==
  /\ ~loading
  /\ speed # displaySettings.playbackSpeed
  /\ displaySettings' = [displaySettings EXCEPT !.playbackSpeed = speed]
  /\ log' = [NoLog EXCEPT !.event = "speed", !.accepted = TRUE,
                          !.during = playState, !.at = currentIndexRef,
                          !.active = animationInProgressRef]
  /\ UNCHANGED << loading, chatHistory, transformedHistoryRef, displayedHistory,
                  currentMessageIndex, currentIndexRef, isPausedRef,
                  animationInProgressRef, animationTimeoutRef, timers,
                  rendered, effects, paging >>
  /\ UNCHANGED << adapter, unifiedSyncLane >>

\* playback is started and paused, and a prop changes at any moment of it
PropsNext ==
  \/ playAnimation
  \/ pauseAnimation
  \/ \E t \in timers : startTimerFires(t)
  \/ \E t \in timers : waitTimerFires(t)
  \/ render
  \/ \E messages \in PropsConversations : changeConversation(messages)
  \/ \E key \in {"showThinking", "showToolCalls", "showToolResults"} :
       changeVisibility(key)
  \/ \E speed \in Speeds : changeSpeed(speed)

PropsSpec == Init /\ [][PropsNext]_vars

\* ---- the Playback Transformer on its own ---------------------------------
\* Raw messages beyond the four shapes of the conversations played above: a
\* model message without parts, a model message with a text part and a
\* functionCall part, and a message of role "thinking" that carries text.
ModelEmpty == [role |-> "model", parts |-> <<>>]
ModelTextAndFunctionCall ==
  [role |-> "model", parts |-> << TextPart, FunctionCallPart >>]
ThinkingText == [role |-> "thinking", parts |-> << TextPart >>]

\* a message of role "subagent" (UnifiedMessage, chat.ts 9-22); the nested
\* conversation it carries is told apart by the id of the message
SubagentMessage == [role |-> "subagent", parts |-> <<>>]

RawShapes ==
  Shapes \cup { ModelEmpty, ModelTextAndFunctionCall, ThinkingText,
                SubagentMessage }

RawHistories ==
  UNION { { conversationOf(f) : f \in [1..n -> RawShapes] } : n \in 0..MaxLen }

\* the visibility flags of DisplaySettings that section 4.5 filters by
VisibilitySettings ==
  { [showThinking |-> a, showToolCalls |-> b, showToolResults |-> c,
     playbackSpeed |-> 1] :
      a \in BOOLEAN, b \in BOOLEAN, c \in BOOLEAN }

\* section 4.5: filter, then expand
playbackHistory(messages, settings) ==
  transformChatHistory(filterVisible(messages, settings))

\* everything is shown until the settings say otherwise
allShown ==
  [showThinking |-> TRUE, showToolCalls |-> TRUE, showToolResults |-> TRUE,
   playbackSpeed |-> 1]

TransformInit ==
  /\ adapter = idleAdapter
  /\ loading = TRUE
  /\ chatHistory = <<>>
  /\ displaySettings = allShown
  /\ unifiedSyncLane \in Reacts
  /\ transformedHistoryRef = <<>>
  /\ displayedHistory = <<>>
  /\ currentMessageIndex = 0
  /\ currentIndexRef = 0
  /\ isPausedRef = FALSE
  /\ animationInProgressRef = FALSE
  /\ animationTimeoutRef = null
  /\ timers = {}
  /\ log = NoLog
  /\ reactIdle

\* The component as present expands the history as it arrives
\* (fetchChatHistory, 324-326) and reads no settings.  The filter in front
\* of the expansion follows section 4.5 of the specification: the settings
\* handed in are applied to the conversation that has arrived.
applyDisplaySettings(settings) ==
  /\ ~loading
  /\ displaySettings' = settings
  /\ transformedHistoryRef' = playbackHistory(chatHistory, settings)
  /\ log' = [NoLog EXCEPT !.event = "settings", !.accepted = TRUE]
  /\ UNCHANGED << loading, chatHistory, displayedHistory, currentMessageIndex,
                  currentIndexRef, isPausedRef, animationInProgressRef,
                  animationTimeoutRef, timers, rendered, effects, paging >>
  /\ UNCHANGED << adapter, unifiedSyncLane >>

TransformNext ==
  \/ \E messages \in RawHistories : fetchChatHistory(messages, FALSE)
  \/ \E settings \in VisibilitySettings : applyDisplaySettings(settings)

TransformSpec == TransformInit /\ [][TransformNext]_vars

\* ---- content extraction (cursor.ts 399-419) ------------------------------
\* A text is a sequence of symbols: "<", "/", ">", the name of a tag (one
\* symbol for its letters), the prose character "x", and the white space
\* characters " " and "nl" (a line feed).
MaxSegments == 4     \* segments a text is put together from

openTag(tag) == << "<", tag, ">" >>
closeTag(tag) == << "<", "/", tag, ">" >>

\* tagsToStrip (406-412), in its order
tagsToStrip ==
  << "external_links", "manually_attached_skills",
     "open_and_recently_viewed_files", "system_reminder", "git_status",
     "user_info", "rules", "agent_skills", "agent_transcripts",
     "mcp_file_system", "tool_calling", "making_code_changes", "citing_code",
     "inline_line_numbers", "terminal_files_information", "task_management",
     "tone_and_style", "system-communication" >>

isSpace(c) == c \in { " ", "  ", "nl" }

matchesAt(text, pattern, p) ==
  /\ p >= 1
  /\ p + Len(pattern) - 1 <= Len(text)
  /\ SubSeq(text, p, p + Len(pattern) - 1) = pattern

\* where the first closing tag at or after p starts, 0 when there is none
firstCloseFrom(text, tag, p) ==
  LET found == { e \in p..Len(text) : matchesAt(text, closeTag(tag), e) }
  IN  IF found = {} THEN 0
      ELSE CHOOSE e \in found : \A f \in found : e <= f

\* String.prototype.trim
trim(text) ==
  LET kept == { k \in 1..Len(text) : ~isSpace(text[k]) }
  IN  IF kept = {} THEN <<>>
      ELSE SubSeq(text, CHOOSE a \in kept : \A k \in kept : a <= k,
                        CHOOSE b \in kept : \A k \in kept : k <= b)

\* text.match(/<user_query>\s*([\s\S]*?)\s*<\/user_query>/) (400): where
\* the leftmost match starts, 0 when there is no match
userQueryStart(text) ==
  LET found == { s \in 1..Len(text) :
                   /\ matchesAt(text, openTag("user_query"), s)
                   /\ firstCloseFrom(text, "user_query", s + 3) # 0 }
  IN  IF found = {} THEN 0
      ELSE CHOOSE s \in found : \A f \in found : s <= f

\* userQueryGroup with a greedy group: up to the last closing tag
userQueryGroupGreedy(text) ==
  LET s == userQueryStart(text)
      closes == { e \in (s + 3)..Len(text) :
                    matchesAt(text, closeTag("user_query"), e) }
      last == CHOOSE e \in closes : \A f \in closes : f <= e
  IN  SubSeq(text, s + 3, last - 1)

\* its group 1: the greedy \s* takes the white space after the opening tag,
\* the lazy group stops where only white space is left before the first
\* closing tag
userQueryGroup(text) ==
  LET s == userQueryStart(text)
      e == firstCloseFrom(text, "user_query", s + 3)
      from == CHOOSE a \in (s + 3)..e :
                /\ \A k \in (s + 3)..(a - 1) : isSpace(text[k])
                /\ a = e \/ ~isSpace(text[a])
      to == CHOOSE g \in from..e :
              /\ \A k \in g..(e - 1) : isSpace(text[k])
              /\ \A h \in from..(g - 1) : \E k \in h..(e - 1) : ~isSpace(text[k])
  IN  SubSeq(text, from, to - 1)

\* cleaned.replace(new RegExp(`<${tag}>[\s\S]*?<\/${tag}>`, 'g'), '') (413-414):
\* from p on, every leftmost shortest region is left out
RECURSIVE replaceFrom(_, _, _)
replaceFrom(text, tag, p) ==
  IF p > Len(text) THEN <<>>
  ELSE LET e == IF matchesAt(text, openTag(tag), p)
                  THEN firstCloseFrom(text, tag, p + 3) ELSE 0
       IN  IF e # 0 THEN replaceFrom(text, tag, e + 4)
           ELSE << text[p] >> \o replaceFrom(text, tag, p + 1)

\* the loop over tagsToStrip (412-415), from its k-th tag on
RECURSIVE stripFrom(_, _)
stripFrom(cleaned, k) ==
  IF k > Len(tagsToStrip) THEN cleaned
  ELSE stripFrom(replaceFrom(cleaned, tagsToStrip[k], 1), k + 1)

extractUserContent(text) ==
  IF userQueryStart(text) # 0 THEN trim(userQueryGroup(text))
  ELSE trim(stripFrom(text, 1))

\* the texts: every concatenation of up to n of the given segments
RECURSIVE textsOver(_, _)
textsOver(segments, n) ==
  IF n = 0 THEN { <<>> }
  ELSE LET shorter == textsOver(segments, n - 1)
       IN  shorter \cup { t \o g : t \in shorter, g \in segments }

\* prose, white space, the user_query tags and the tags of one wrapper
QuerySegments ==
  { << "x" >>, << " " >>, openTag("user_query"), closeTag("user_query"),
    openTag("git_status"), closeTag("git_status") }

\* the tags of two wrappers, those of the later one also cut in two
WrapperSegments ==
  { << "x" >>, openTag("git_status"), closeTag("git_status"),
    << "<", "rules" >>, << ">" >>, closeTag("rules") }

RawTexts ==
  textsOver(QuerySegments, MaxSegments)
    \cup textsOver(WrapperSegments, MaxSegments + 1)

ExtractInit ==
  /\ \E text \in RawTexts :
       adapter = [idleAdapter EXCEPT !.text = text, !.cleaned = text]
  /\ loading = TRUE
  /\ chatHistory = <<>>
  /\ transformedHistoryRef = <<>>
  /\ displayedHistory = <<>>
  /\ currentMessageIndex = 0
  /\ currentIndexRef = 0
  /\ isPausedRef = FALSE
  /\ animationInProgressRef = FALSE
  /\ animationTimeoutRef = null
  /\ timers = {}
  /\ displaySettings = defaultDisplaySettings
  /\ log = NoLog
  /\ unifiedSyncLane = FALSE
  /\ reactIdle

\* extractUserContent applied to the text, and again to what it returned
extractStep ==
  /\ adapter.extractions < 2
  /\ adapter' = [adapter EXCEPT !.cleaned = extractUserContent(@),
                                !.extractions = @ + 1]
  /\ UNCHANGED << loading, chatHistory, transformedHistoryRef,
                  displayedHistory, currentMessageIndex, currentIndexRef,
                  isPausedRef, animationInProgressRef, animationTimeoutRef,
                  timers, displaySettings, log, rendered, effects,
                  paging, unifiedSyncLane >>

ExtractNext == extractStep

ExtractSpec == ExtractInit /\ [][ExtractNext]_vars

\* ---- parseJsonlTranscript (cursor.ts 218-253) ----------------------------
MaxLines == 2        \* lines of a transcript file

TextBlock(text) == [type |-> "text", text |-> text]
ToolUseBlock == [type |-> "tool_use", text |-> <<>>]

\* a line of the file: blank, not JSON at all, the JSON value null (reading
\* its role throws), or an entry with a role and message.content
BlankLine == [kind |-> "blank", role |-> "", content |-> <<>>]
MalformedLine == [kind |-> "malformed", role |-> "", content |-> <<>>]
NullLine == [kind |-> "null", role |-> "", content |-> <<>>]
EntryLine(role, content) == [kind |-> "entry", role |-> role, content |-> content]

\* message.content of the entries: nothing, a tool use only, prose, an empty
\* text, a wrapper region only, a user_query region, two texts around a tool
\* use, two empty texts
Contents ==
  { <<>>,
    << ToolUseBlock >>,
    << TextBlock(<< "x" >>) >>,
    << TextBlock(<<>>) >>,
    << TextBlock(openTag("git_status") \o << "x" >> \o closeTag("git_status")) >>,
    << TextBlock(openTag("user_query") \o << " ", "x" >> \o closeTag("user_query")) >>,
    << TextBlock(<< "x" >>), ToolUseBlock, TextBlock(<< "x" >>) >>,
    << TextBlock(<<>>), TextBlock(<<>>) >> }

JsonLines ==
  { BlankLine, MalformedLine, NullLine }
    \cup { EntryLine(role, content) :
             role \in { "user", "assistant" }, content \in Contents }

Transcripts == UNION { [1..n -> JsonLines] : n \in 0..MaxLines }

\* textParts.join('\n') (239)
RECURSIVE join(_)
join(textParts) ==
  IF Len(textParts) = 0 THEN <<>>
  ELSE IF Len(textParts) = 1 THEN textParts[1]
  ELSE textParts[1] \o << "nl" >> \o join(Tail(textParts))

\* the texts of the blocks of type text (234-236)
RECURSIVE textPartsOf(_)
textPartsOf(content) ==
  IF content = <<>> THEN <<>>
  ELSE IF Head(content).type = "text"
    THEN << Head(content).text >> \o textPartsOf(Tail(content))
  ELSE textPartsOf(Tail(content))

\* what the body of the loop pushes for one line (231-250): nothing when
\* JSON.parse or the reading of the entry throws
lineMessages(line) ==
  IF line.kind # "entry" THEN <<>>
  ELSE LET role == IF line.role = "assistant" THEN "assistant" ELSE "user"
           textParts == textPartsOf(line.content)
           text == IF role = "user" THEN extractUserContent(join(textParts))
                   ELSE join(textParts)
       IN  IF Len(textParts) > 0 /\ text # <<>>
             THEN << [role |-> role, content |-> text] >>
             ELSE <<>>

ParseInit ==
  /\ \E content \in Transcripts : adapter = [idleAdapter EXCEPT !.content = content]
  /\ loading = TRUE
  /\ chatHistory = <<>>
  /\ transformedHistoryRef = <<>>
  /\ displayedHistory = <<>>
  /\ currentMessageIndex = 0
  /\ currentIndexRef = 0
  /\ isPausedRef = FALSE
  /\ animationInProgressRef = FALSE
  /\ animationTimeoutRef = null
  /\ timers = {}
  /\ displaySettings = defaultDisplaySettings
  /\ log = NoLog
  /\ unifiedSyncLane = FALSE
  /\ reactIdle

\* content.trim().split('\n').filter(l => l.trim()) (227)
parseJsonlTranscript ==
  /\ adapter.line = 0
  /\ adapter' = [adapter EXCEPT
                   !.lines = SelectSeq(adapter.content,
                                       LAMBDA l : l.kind # "blank"),
                   !.line = 1, !.messages = <<>>]
  /\ UNCHANGED << loading, chatHistory, transformedHistoryRef,
                  displayedHistory, currentMessageIndex, currentIndexRef,
                  isPausedRef, animationInProgressRef, animationTimeoutRef,
                  timers, displaySettings, log, rendered, effects,
                  paging, unifiedSyncLane >>

\* parseLine with the try around the loop: a line that throws ends the parse
parseLineAborting ==
  /\ adapter.line >= 1 /\ adapter.line <= Len(adapter.lines)
  /\ adapter' = [adapter EXCEPT
                   !.messages = @ \o lineMessages(adapter.lines[adapter.line]),
                   !.line = IF adapter.lines[adapter.line].kind = "entry"
                              THEN @ + 1 ELSE Len(adapter.lines) + 1]
  /\ UNCHANGED << loading, chatHistory, transformedHistoryRef,
                  displayedHistory, currentMessageIndex, currentIndexRef,
                  isPausedRef, animationInProgressRef, animationTimeoutRef,
                  timers, displaySettings, log, rendered, effects,
                  paging, unifiedSyncLane >>

\* one pass of the loop over the lines (230-250)
parseLine ==
  /\ adapter.line >= 1 /\ adapter.line <= Len(adapter.lines)
  /\ adapter' = [adapter EXCEPT
                   !.messages = @ \o lineMessages(adapter.lines[adapter.line]),
                   !.line = @ + 1]
  /\ UNCHANGED << loading, chatHistory, transformedHistoryRef,
                  displayedHistory, currentMessageIndex, currentIndexRef,
                  isPausedRef, animationInProgressRef, animationTimeoutRef,
                  timers, displaySettings, log, rendered, effects,
                  paging, unifiedSyncLane >>

ParseNext ==
  \/ parseJsonlTranscript
  \/ parseLine

ParseSpec == ParseInit /\ [][ParseNext]_vars

\* ---- the player is not involved in what the server does -------------------
playerIdle ==
  /\ loading = TRUE
  /\ chatHistory = <<>>
  /\ transformedHistoryRef = <<>>
  /\ displayedHistory = <<>>
  /\ currentMessageIndex = 0
  /\ currentIndexRef = 0
  /\ isPausedRef = FALSE
  /\ animationInProgressRef = FALSE
  /\ animationTimeoutRef = null
  /\ timers = {}
  /\ displaySettings = defaultDisplaySettings
  /\ log = NoLog
  /\ unifiedSyncLane = FALSE
  /\ reactIdle

playerUnchanged ==
  UNCHANGED << loading, chatHistory, transformedHistoryRef, displayedHistory,
               currentMessageIndex, currentIndexRef, isPausedRef,
               animationInProgressRef, animationTimeoutRef, timers,
               displaySettings, log, rendered, effects, paging,
               unifiedSyncLane >>

\* ---- SamplesAdapter: the structured export (samples.ts 68-141) ------------
MaxElements == 2     \* elements of the exported array
MaxExportParts == 2  \* parts of the elements of one array, all together

\* An optional property is a sequence: empty when the property is missing,
\* else of the one value it has.
\* A JSON scalar: its type and the way it is written in the file.
JsonString(s) == [type |-> "string", lit |-> s]
JsonNumber(s) == [type |-> "number", lit |-> s]
JsonNull == [type |-> "null", lit |-> "null"]
JsonObject == [type |-> "object", lit |-> "{}"]

\* String(v) (118)
String(v) == IF v.type = "object" THEN "[object Object]" ELSE v.lit

\* a part of an element: a JSON object with text?, functionCall?,
\* functionResponse?, or the JSON value null
Part(text, functionCall, functionResponse) ==
  [kind |-> "object", text |-> text, functionCall |-> functionCall,
   functionResponse |-> functionResponse]
NullPart == [kind |-> "null", text |-> <<>>, functionCall |-> <<>>,
             functionResponse |-> <<>>]

searchCall ==
  [name |-> "search",
   args |-> << << [key |-> "q", value |-> JsonString("x")],
                  [key |-> "n", value |-> JsonNumber("1")],
                  [key |-> "o", value |-> JsonObject] >> >>]
callWithoutArgs == [name |-> "search", args |-> <<>>]
searchResponse == [name |-> "search", response |-> << [output |-> "out"] >>]
responseWithoutResponse == [name |-> "search", response |-> <<>>]

\* the parts of the format: a text, a function call, a function response
FormatParts ==
  { Part(<< "hi" >>, <<>>, <<>>),
    Part(<<>>, << searchCall >>, <<>>),
    Part(<<>>, <<>>, << searchResponse >>) }

\* other parts: an empty text, a text next to a function call, a function
\* call without args, a function response without response, null
OtherParts ==
  { Part(<< "" >>, <<>>, <<>>),
    Part(<< "hi" >>, << searchCall >>, <<>>),
    Part(<<>>, << callWithoutArgs >>, <<>>),
    Part(<<>>, <<>>, << responseWithoutResponse >>),
    NullPart }

\* an element of the array: a JSON object with role?, parts?, content?, or
\* another JSON value. parts is missing, an array or a string.
Element(role, partsKind, parts, content) ==
  [kind |-> "object", role |-> role, partsKind |-> partsKind, parts |-> parts,
   content |-> content]
NullElement == [kind |-> "null", role |-> <<>>, partsKind |-> "absent",
                parts |-> <<>>, content |-> <<>>]
NumberElement == [kind |-> "number", role |-> <<>>, partsKind |-> "absent",
                  parts |-> <<>>, content |-> <<>>]

ExportRoles == { "user", "model" }

\* the elements with the n given parts
PartsElements(n, parts) ==
  { Element(<< role >>, "array", p, <<>>) :
      role \in ExportRoles, p \in [1..n -> parts] }

\* elements with a string content; elements of neither shape: no role, parts
\* that are a string, a content that is a number, not an object
ContentElements ==
  { Element(<< role >>, "absent", <<>>, << JsonString("hi") >>) :
      role \in { "user", "assistant" } }
OtherElements ==
  { Element(<<>>, "array", <<>>, <<>>),
    Element(<<>>, "absent", <<>>, << JsonString("hi") >>),
    Element(<< "user" >>, "string", <<>>, <<>>),
    Element(<< "user" >>, "absent", <<>>, << JsonNumber("1") >>),
    Element(<< "user" >>, "absent", <<>>, <<>>),
    NullElement, NumberElement }

\* the arrays of at most e elements with at most p parts all together (an
\* element without parts counts for one)
RECURSIVE ExportArrays(_, _)
ExportArrays(e, p) ==
  { <<>> } \cup
  ( IF e = 0 \/ p = 0 THEN {}
    ELSE UNION {
           { << first >> \o rest :
               first \in ( IF n = 0
                             THEN PartsElements(0, FormatParts)
                                    \cup ContentElements \cup OtherElements
                             ELSE PartsElements(n, FormatParts \cup OtherParts) ),
               rest \in ExportArrays(e - 1, p - (IF n = 0 THEN 1 ELSE n)) } :
           n \in 0..p } )

\* what JSON.parse returns (80): an array of at most e elements and p
\* parts, or a value that is not an array
ExportData(e, p) ==
  { [kind |-> "array", items |-> items] : items \in ExportArrays(e, p) }
    \cup { [kind |-> "object", items |-> <<>>] }

\* Object.fromEntries(Object.entries(args).map(([k, v]) => [k, String(v)]))
\* (117-119)
stringArgs(args) ==
  [k \in 1..Len(args) |-> [key |-> args[k].key, value |-> String(args[k].value)]]

\* reading the part throws a TypeError: part is null (111), args is missing
\* (118), response is missing (125)
partThrows(part) ==
  \/ part.kind = "null"
  \/ /\ part.functionCall # <<>>
     /\ part.functionCall[1].args = <<>>
  \/ /\ part.functionCall = <<>>
     /\ part.functionResponse # <<>>
     /\ part.functionResponse[1].response = <<>>

\* what the body of the inner loop pushes for one part (111-136)
partMessagesArgsKept(role, part) ==
  IF partThrows(part) THEN <<>>
  ELSE IF part.functionCall # <<>>
    THEN << [role |-> "tool_call", content |-> part.functionCall[1].name,
             toolCall |-> << [name |-> part.functionCall[1].name,
                              args |-> [k \in 1..Len(part.functionCall[1].args[1]) |->
                                          [key |-> part.functionCall[1].args[1][k].key,
                                           value |-> part.functionCall[1].args[1][k].value.lit]]] >>,
             toolResult |-> <<>>] >>
  ELSE IF part.functionResponse # <<>>
    THEN << [role |-> "tool_result",
             content |-> part.functionResponse[1].response[1].output,
             toolCall |-> <<>>,
             toolResult |-> << [name |-> part.functionResponse[1].name,
                                output |-> part.functionResponse[1].response[1].output] >>] >>
  ELSE IF part.text # <<>> /\ part.text[1] # ""
    THEN << [role |-> IF role = << "model" >> THEN "assistant" ELSE "user",
             content |-> part.text[1], toolCall |-> <<>>, toolResult |-> <<>>] >>
  ELSE <<>>

partMessages(role, part) ==
  IF partThrows(part) THEN <<>>
  ELSE IF part.functionCall # <<>>
    THEN << [role |-> "tool_call", content |-> part.functionCall[1].name,
             toolCall |-> << [name |-> part.functionCall[1].name,
                              args |-> stringArgs(part.functionCall[1].args[1])] >>,
             toolResult |-> <<>>] >>
  ELSE IF part.functionResponse # <<>>
    THEN << [role |-> "tool_result",
             content |-> part.functionResponse[1].response[1].output,
             toolCall |-> <<>>,
             toolResult |-> << [name |-> part.functionResponse[1].name,
                                output |-> part.functionResponse[1].response[1].output] >>] >>
  ELSE IF part.text # <<>> /\ part.text[1] # ""
    THEN << [role |-> IF role = << "model" >> THEN "assistant" ELSE "user",
             content |-> part.text[1], toolCall |-> <<>>, toolResult |-> <<>>] >>
  ELSE <<>>

\* the inner loop over msg.parts (110): what it pushes
RECURSIVE partsMessages(_, _)
partsMessages(role, parts) ==
  IF parts = <<>> THEN <<>>
  ELSE partMessages(role, Head(parts)) \o partsMessages(role, Tail(parts))

\* going over the element throws a TypeError: msg is null, msg.parts is
\* not iterable (110), or a part throws. The characters of a string are
\* parts with nothing in them.
elementThrows(msg) ==
  \/ msg.kind # "object"
  \/ msg.partsKind = "absent"
  \/ /\ msg.partsKind = "array"
     /\ \E k \in 1..Len(msg.parts) : partThrows(msg.parts[k])

\* parseGeminiApi (106-141): the result, or the TypeError that ends it
parseGeminiApi(messages) ==
  IF \E k \in 1..Len(messages) : elementThrows(messages[k])
    THEN [threw |-> TRUE, result |-> <<>>]
    ELSE [threw |-> FALSE,
          result |-> LET RECURSIVE over(_)
                         over(k) ==
                           IF k > Len(messages) THEN <<>>
                           ELSE ( IF messages[k].partsKind = "array"
                                    THEN partsMessages(messages[k].role,
                                                       messages[k].parts)
                                    ELSE <<>> ) \o over(k + 1)
                     IN  over(1)]

\* first.role && first.parts (93), first.role && typeof first.content ===
\* 'string' (97): an array, even an empty one, and a string are truthy
truthyRole(first) == first.role # <<>> /\ first.role[1] # ""
truthyParts(first) == first.partsKind \in { "array", "string" }
stringContent(first) ==
  first.content # <<>> /\ first.content[1].type = "string"

\* parseAuto (88-104): what it returns, whether it threw, whether it warned
\* of an unrecognized format
NoOutcome == [returned |-> FALSE, threw |-> FALSE, warned |-> FALSE,
              messages |-> <<>>]

parseAuto(data) ==
  IF data.kind = "array" /\ data.items = <<>>
    THEN [returned |-> TRUE, threw |-> FALSE, warned |-> FALSE, messages |-> <<>>]
  ELSE IF data.kind = "array" /\ data.items[1].kind = "null"
    THEN [returned |-> FALSE, threw |-> TRUE, warned |-> FALSE, messages |-> <<>>]
  ELSE IF data.kind = "array" /\ truthyRole(data.items[1])
            /\ truthyParts(data.items[1])
    THEN LET parsedApi == parseGeminiApi(data.items)
         IN  [returned |-> ~parsedApi.threw, threw |-> parsedApi.threw,
              warned |-> FALSE, messages |-> parsedApi.result]
  ELSE IF data.kind = "array" /\ truthyRole(data.items[1])
            /\ stringContent(data.items[1])
    THEN [returned |-> TRUE, threw |-> FALSE, warned |-> FALSE,
          messages |-> data.items]
  ELSE [returned |-> TRUE, threw |-> FALSE, warned |-> TRUE, messages |-> <<>>]

ExportInit ==
  /\ \E data \in ExportData(MaxElements, MaxExportParts) :
       adapter = [data |-> data, outcome |-> NoOutcome, loaded |-> <<>>]
  /\ playerIdle

\* SamplesAdapter.loadConversation from JSON.parse on (79-85); the error
\* parseAuto throws is caught there and the load returns []
loadExport ==
  /\ adapter.outcome = NoOutcome
  /\ adapter' = [adapter EXCEPT
                   !.outcome = parseAuto(adapter.data),
                   !.loaded = IF parseAuto(adapter.data).threw THEN <<>>
                              ELSE parseAuto(adapter.data).messages]
  /\ playerUnchanged

ExportNext == loadExport

ExportSpec == ExportInit /\ [][ExportNext]_vars

\* ---- CursorAdapter: listing (cursor.ts 33-117) ----------------------------
MaxProjects == 2     \* entries of the projects directory
MaxEntries == 2      \* entries of an agent-transcripts directory

\* A slug is the sequence of the segments its '-' separate.
ProjectSlugs ==
  { << "Users", "x", "Code", "alpha" >>,
    << "Users", "x", "Code", "zebra" >>,
    << "some", "zebra", "alpha", "x" >> }

\* slugToDisplayName (423-430): the segments the name is joined from
slugToDisplayName(slug) ==
  LET codeIndex == IF \E k \in 1..Len(slug) : slug[k] = "Code"
                     THEN CHOOSE k \in 1..Len(slug) :
                            /\ slug[k] = "Code"
                            /\ \A j \in 1..(k - 1) : slug[j] # "Code"
                     ELSE 0
  IN  IF codeIndex >= 1 /\ codeIndex < Len(slug)
        THEN SubSeq(slug, codeIndex + 1, Len(slug))
      ELSE IF Len(slug) <= 3 THEN slug
      ELSE SubSeq(slug, Len(slug) - 2, Len(slug))

\* a.name.localeCompare(b.name) < 0 (56), on the names of the slugs above
rank(segment) ==
  CASE segment = "alpha" -> 1 [] segment = "Code" -> 2 [] segment = "some" -> 3
    [] segment = "Users" -> 4 [] segment = "x" -> 5 [] OTHER -> 6

RECURSIVE nameBefore(_, _)
nameBefore(a, b) ==
  IF b = <<>> THEN FALSE
  ELSE IF a = <<>> THEN TRUE
  ELSE IF rank(Head(a)) # rank(Head(b)) THEN rank(Head(a)) < rank(Head(b))
  ELSE nameBefore(Tail(a), Tail(b))

projectBefore(a, b) == nameBefore(a.name, b.name)

\* projects.sort(...) (56) on the first k projects: Array.prototype.sort
\* is stable
RECURSIVE sortProjects(_, _)
sortProjects(items, k) ==
  IF k = 0 THEN <<>>
  ELSE LET RECURSIVE place(_)
           place(s) ==
             IF s = <<>> THEN << items[k] >>
             ELSE IF projectBefore(items[k], s[Len(s)])
               THEN place(SubSeq(s, 1, Len(s) - 1)) \o << s[Len(s)] >>
               ELSE s \o << items[k] >>
       IN  place(sortProjects(items, k - 1))

\* (b.updatedAt || 0) - (a.updatedAt || 0) < 0 (111)
conversationBefore(a, b) == b.updatedAt < a.updatedAt

\* conversations.sort(...) (111) on the first k conversations
RECURSIVE sortConversations(_, _)
sortConversations(items, k) ==
  IF k = 0 THEN <<>>
  ELSE LET RECURSIVE place(_)
           place(s) ==
             IF s = <<>> THEN << items[k] >>
             ELSE IF conversationBefore(items[k], s[Len(s)])
               THEN place(SubSeq(s, 1, Len(s) - 1)) \o << s[Len(s)] >>
               ELSE s \o << items[k] >>
       IN  place(sortConversations(items, k - 1))

\* The projects directory: missing (access throws), unreadable (readdir
\* throws) or with entries, each with an agent-transcripts directory or not.
ProjectEntries ==
  { [slug |-> slug, transcripts |-> t] :
      slug \in ProjectSlugs, t \in BOOLEAN }

ProjectsDirs ==
  { [state |-> "missing", entries |-> <<>>],
    [state |-> "unreadable", entries |-> <<>>] }
    \cup { [state |-> "ok", entries |-> entries] :
             entries \in { e \in UNION { [1..n -> ProjectEntries] : n \in 0..MaxProjects } :
                             \A i, j \in 1..Len(e) : i # j => e[i].slug # e[j].slug } }

\* An entry of an agent-transcripts directory: a directory, a .txt file or
\* another file; its transcript (<name>/<name>.jsonl, or the .txt file
\* itself) is there, is missing (access throws) or cannot be examined (stat
\* throws); mtime and birthtime of the transcript.
TranscriptEntry(name, kind, transcript, mtime) ==
  [name |-> name, kind |-> kind, transcript |-> transcript, mtime |-> mtime,
   birthtime |-> 1]

EntriesOf(name) ==
  { TranscriptEntry(name, "other", "ok", 1) }
    \cup { TranscriptEntry(name, kind, transcript, mtime) :
             kind \in { "dir", "txt" },
             transcript \in { "ok", "missing", "nostat" },
             mtime \in 1..2 }

\* the entries in the order readdir gives them: at most one for a name
RECURSIVE EntryLists(_)
EntryLists(n) ==
  IF n = 0 THEN { <<>> }
  ELSE { shorter \o tail : shorter \in EntryLists(n - 1),
                           tail \in { <<>> } \cup { << e >> : e \in EntriesOf(n) } }

TranscriptsDirs ==
  { [state |-> "missing", entries |-> <<>>],
    [state |-> "unreadable", entries |-> <<>>] }
    \cup { [state |-> "ok", entries |-> entries] : entries \in EntryLists(MaxEntries) }

\* what getConversationMetadata returns (439-487): nothing (no workspace
\* database, or sqlite3 failed: caught there), or name and times of
\* conversation 1, the time being later than every mtime
Metadatas == { "none", "named" }

metaOf(metadata, conversationId) ==
  IF metadata = "named" /\ conversationId = 1
    THEN << [name |-> "named", updatedAt |-> 3, createdAt |-> 3] >>
    ELSE <<>>

NotCalled == [done |-> FALSE, threw |-> FALSE, value |-> <<>>]
Returned(value) == [done |-> TRUE, threw |-> FALSE, value |-> value]
Rejected == [done |-> TRUE, threw |-> TRUE, value |-> <<>>]

\* the body of the loop of listProjects (46-53): what it pushes
projectOf(entry) ==
  IF entry.transcripts
    THEN << [id |-> entry.slug, name |-> slugToDisplayName(entry.slug),
             path |-> entry.slug] >>
    ELSE <<>>

RECURSIVE projectsFrom(_, _)
projectsFrom(entries, k) ==
  IF k > Len(entries) THEN <<>>
  ELSE projectOf(entries[k]) \o projectsFrom(entries, k + 1)

\* listProjects (33-61)
listProjectsOf(dir) ==
  IF dir.state = "missing" THEN Returned(<<>>)
  ELSE IF dir.state = "unreadable" THEN Returned(<<>>)
  ELSE LET projects == projectsFrom(dir.entries, 1)
       IN  Returned(sortProjects(projects, Len(projects)))

\* the body of the loop of listConversations (79-108): the entry is passed
\* over (90), or access or stat throws (93-94), or a summary is pushed
entryOutcome(entry, metadata) ==
  IF entry.kind = "other" THEN [threw |-> FALSE, pushed |-> <<>>]
  ELSE IF entry.transcript # "ok" THEN [threw |-> TRUE, pushed |-> <<>>]
  ELSE LET meta == metaOf(metadata, entry.name)
       IN  [threw |-> FALSE,
            pushed |-> << [id |-> entry.name,
                           title |-> IF meta # <<>> THEN meta[1].name ELSE "id...",
                           createdAt |-> IF meta # <<>> THEN meta[1].createdAt
                                         ELSE entry.birthtime,
                           updatedAt |-> IF meta # <<>> THEN meta[1].updatedAt
                                         ELSE entry.mtime] >>]

\* the loop with the try around it: an entry that throws ends the listing
\* in the outer catch
RECURSIVE conversationsFromAborting(_, _, _)
conversationsFromAborting(entries, metadata, k) ==
  IF k > Len(entries) THEN <<>>
  ELSE IF \E j \in 1..Len(entries) : entryOutcome(entries[j], metadata).threw
    THEN <<>>
  ELSE entryOutcome(entries[k], metadata).pushed
         \o conversationsFromAborting(entries, metadata, k + 1)

\* the loop (78-109): an entry that throws is skipped (106-108)
RECURSIVE conversationsFrom(_, _, _)
conversationsFrom(entries, metadata, k) ==
  IF k > Len(entries) THEN <<>>
  ELSE entryOutcome(entries[k], metadata).pushed
         \o conversationsFrom(entries, metadata, k + 1)

\* listConversations (63-117); projectId is << >> when it is not given
listConversationsOf(projectId, dir, metadata) ==
  IF projectId = <<>> THEN Returned(<<>>)
  ELSE IF dir.state # "ok" THEN Returned(<<>>)
  ELSE LET conversations == conversationsFrom(dir.entries, metadata, 1)
       IN  Returned(sortConversations(conversations, Len(conversations)))

ListInit ==
  /\ \/ \E dir \in ProjectsDirs :
          adapter = [operation |-> "listProjects", dir |-> dir,
                     metadata |-> "none", projectId |-> <<>>,
                     outcome |-> NotCalled]
     \/ \E dir \in TranscriptsDirs, metadata \in Metadatas :
          adapter = [operation |-> "listConversations", dir |-> dir,
                     metadata |-> metadata, projectId |-> <<>>,
                     outcome |-> NotCalled]
  /\ playerIdle

listProjects ==
  /\ adapter.operation = "listProjects" /\ ~adapter.outcome.done
  /\ adapter' = [adapter EXCEPT !.outcome = listProjectsOf(adapter.dir)]
  /\ playerUnchanged

listConversations ==
  /\ adapter.operation = "listConversations" /\ ~adapter.outcome.done
  /\ \E projectId \in { <<>>, << "Users-x-Code-alpha" >> } :
       adapter' = [adapter EXCEPT
                     !.projectId = projectId,
                     !.outcome = listConversationsOf(projectId, adapter.dir,
                                                     adapter.metadata)]
  /\ playerUnchanged

ListNext ==
  \/ listProjects
  \/ listConversations

ListSpec == ListInit /\ [][ListNext]_vars

\* ---- CursorAdapter.loadConversation (cursor.ts 119-214) -------------------
MaxSubagents == 2    \* entries of a subagents directory

\* A file: missing (access throws), there but unreadable (readFile throws),
\* or with its lines.
MissingFile == [state |-> "missing", content |-> <<>>]
UnreadableFile == [state |-> "unreadable", content |-> <<>>]
FileOf(content) == [state |-> "ok", content |-> content]

\* parseJsonlTranscript as a whole (218-253): the loop from its k-th line on
RECURSIVE messagesFrom(_, _)
messagesFrom(content, k) ==
  IF k > Len(content) THEN <<>>
  ELSE lineMessages(content[k]) \o messagesFrom(content, k + 1)

parseJsonlTranscriptOf(file) ==
  IF file.state # "ok" THEN <<>> ELSE messagesFrom(file.content, 1)

\* A line of a .txt transcript is a text; the markers are texts of one
\* symbol. Two spaces at the start of a line are the symbol "  ", and ": "
\* is a symbol.
userMarker == << "user:" >>
assistantMarker == << "assistant:" >>
isMarker(line) == line = userMarker \/ line = assistantMarker

\* line.startsWith(prefix)
startsWith(line, prefix) == Len(line) >= 1 /\ line[1] = prefix

\* the tests that end the [Thinking] and the [Tool call] section (322-326,
\* 347-351)
endsSection(line) ==
  \/ isMarker(line)
  \/ startsWith(line, "[Thinking]")
  \/ startsWith(line, "[Tool call]")
  \/ startsWith(line, "[Tool result]")

\* line.substring(marker.length).trim() (314, 341, 380)
afterMarker(line) == trim(Tail(line))

\* paramLine.indexOf(': ') (356), counted in symbols from 1: 0 when ': ' is
\* not in the line
colonIdx(paramLine) ==
  LET found == { k \in 1..Len(paramLine) : paramLine[k] = ": " }
  IN  IF found = {} THEN 0
      ELSE CHOOSE k \in found : \A f \in found : k <= f

\* /^[a-zA-Z_][a-zA-Z0-9_]*$/ (357) on the symbols of the model
isKeyName(text) ==
  /\ Len(text) >= 1
  /\ text[1] \in { "path", "q", "x", "Read", "__proto__" }
  /\ \A k \in 1..Len(text) : text[k] \in { "path", "q", "x", "Read", "__proto__", "1" }

\* args[key] = value (359, 361) on args = {} (342), the properties of args in
\* the order they were added: the assignment to __proto__ of a string
\* changes nothing
setArg(args, key, value) ==
  IF key = << "__proto__" >> THEN args
  ELSE IF \E k \in 1..Len(args) : args[k].key = key
    THEN [k \in 1..Len(args) |->
            IF args[k].key = key THEN [key |-> key, value |-> value]
            ELSE args[k]]
  ELSE Append(args, [key |-> key, value |-> value])

\* args[key], for a key set before
getArg(args, key) ==
  args[CHOOSE k \in 1..Len(args) : args[k].key = key].value

\* The state of parseTxtTranscript and parseAssistantBlock: the lines, the
\* index i of the line to read (from 1), the loop that runs (pos), the
\* messages pushed, and the locals of the loops. origins is no variable of
\* the code: for every message, the index of the line its section began at.
startTxt(lines) ==
  [lines |-> lines, i |-> 1, pos |-> "loop", messages |-> <<>>,
   origins |-> <<>>, blockLines |-> <<>>, assistantText |-> <<>>,
   thinkingLines |-> <<>>, toolName |-> <<>>, args |-> <<>>,
   lastKey |-> <<>>, sectionStart |-> 0, textStart |-> 0]

\* messages.push(message) for the section that began at line origin
push(st, message, origin) ==
  [st EXCEPT !.messages = Append(@, message), !.origins = Append(@, origin)]

\* flushAssistantText without the reset of assistantText
flushAssistantTextKeeping(st) ==
  LET text == trim(join(st.assistantText))
  IN  IF text # <<>>
        THEN push(st, [role |-> "assistant", content |-> text], st.textStart)
        ELSE st

\* flushAssistantText (297-303)
flushAssistantText(st) ==
  LET text == trim(join(st.assistantText))
      flushed == [st EXCEPT !.assistantText = <<>>, !.textStart = 0]
  IN  IF text # <<>>
        THEN push(flushed, [role |-> "assistant", content |-> text], st.textStart)
        ELSE flushed

\* one pass of the loop of parseTxtTranscript (270-288), up to the inner
\* loop of the user block and the call of parseAssistantBlock; the loop ends
\* after the last line
outerStep(st) ==
  IF st.i > Len(st.lines) THEN [st EXCEPT !.pos = "done"]
  ELSE IF st.lines[st.i] = userMarker
    THEN [st EXCEPT !.i = @ + 1, !.blockLines = <<>>, !.sectionStart = st.i,
                    !.pos = "user"]
  ELSE IF st.lines[st.i] = assistantMarker
    THEN [st EXCEPT !.i = @ + 1, !.assistantText = <<>>, !.textStart = 0,
                    !.pos = "block"]
  ELSE [st EXCEPT !.i = @ + 1]

\* one pass of the loop of the user block (274-277); when it ends, the
\* message of the block (278-281)
userStep(st) ==
  IF st.i <= Len(st.lines) /\ ~isMarker(st.lines[st.i])
    THEN [st EXCEPT !.blockLines = Append(@, st.lines[st.i]), !.i = @ + 1]
  ELSE LET text == extractUserContent(trim(join(st.blockLines)))
           back == [st EXCEPT !.pos = "loop"]
       IN  IF text # <<>>
             THEN push(back, [role |-> "user", content |-> text], st.sectionStart)
             ELSE back

\* one pass of the loop of parseAssistantBlock (305-391), up to the inner
\* loops of the [Thinking] and the [Tool call] section; when it ends, the
\* last flush and the return (393-394)
blockStep(st) ==
  IF st.i > Len(st.lines) \/ isMarker(st.lines[st.i])
    THEN [flushAssistantText(st) EXCEPT !.pos = "loop"]
  ELSE LET line == st.lines[st.i]
       IN  IF startsWith(line, "[Thinking]")
             THEN [flushAssistantText(st) EXCEPT
                     !.thinkingLines = IF afterMarker(line) # <<>>
                                         THEN << afterMarker(line) >> ELSE <<>>,
                     !.sectionStart = st.i, !.i = @ + 1, !.pos = "thinking"]
           ELSE IF startsWith(line, "[Tool call]")
             THEN [flushAssistantText(st) EXCEPT
                     !.toolName = afterMarker(line), !.args = <<>>,
                     !.lastKey = <<>>,
                     !.sectionStart = st.i, !.i = @ + 1, !.pos = "toolcall"]
           ELSE IF startsWith(line, "[Tool result]")
             THEN [push(flushAssistantText(st),
                        [role |-> "tool_result",
                         content |-> IF afterMarker(line) # <<>>
                                       THEN afterMarker(line)
                                       ELSE << "(completed)" >>,
                         toolResult |-> [name |-> afterMarker(line),
                                         output |-> << "(completed)" >>]],
                        st.i)
                   EXCEPT !.i = @ + 1]
           ELSE [st EXCEPT !.assistantText = Append(@, line),
                           !.textStart = IF st.assistantText = <<>>
                                           THEN st.i ELSE @,
                           !.i = @ + 1]

\* one pass of the loop of the [Thinking] section (320-331); when it ends,
\* the message of the section (333-337)
thinkingStep(st) ==
  IF st.i <= Len(st.lines) /\ ~endsSection(st.lines[st.i])
    THEN [st EXCEPT !.thinkingLines = Append(@, st.lines[st.i]), !.i = @ + 1]
  ELSE LET fullText == trim(join(st.thinkingLines))
           back == [st EXCEPT !.pos = "block"]
       IN  IF fullText # <<>>
             THEN push(back, [role |-> "thinking", content |-> fullText],
                       st.sectionStart)
             ELSE back

\* the body of the loop of the [Tool call] section for a line of the
\* section (354-366): the args and the lastKey after it
paramStep(st, nextLine) ==
  IF startsWith(nextLine, "  ")
    THEN LET paramLine == Tail(nextLine)
             idx == colonIdx(paramLine)
         IN  IF idx > 1 /\ isKeyName(SubSeq(paramLine, 1, idx - 1))
               THEN [st EXCEPT
                       !.lastKey = SubSeq(paramLine, 1, idx - 1),
                       !.args = setArg(@, SubSeq(paramLine, 1, idx - 1),
                                       SubSeq(paramLine, idx + 1, Len(paramLine)))]
             ELSE IF st.lastKey # <<>> /\ st.lastKey # << "__proto__" >>
               THEN [st EXCEPT
                       !.args = setArg(@, st.lastKey,
                                       getArg(st.args, st.lastKey)
                                         \o << "nl" >> \o paramLine)]
             ELSE st
  ELSE IF trim(nextLine) = <<>> THEN [st EXCEPT !.lastKey = <<>>]
  ELSE st

\* one pass of the loop of the [Tool call] section (345-368); when it ends,
\* the message of the section (370-374)
toolCallStep(st) ==
  IF st.i <= Len(st.lines) /\ ~endsSection(st.lines[st.i])
    THEN [paramStep(st, st.lines[st.i]) EXCEPT !.i = @ + 1]
  ELSE push([st EXCEPT !.pos = "block"],
            [role |-> "tool_call", content |-> st.toolName,
             toolCall |-> [name |-> st.toolName, args |-> st.args]],
            st.sectionStart)

\* the step of the loop that runs
txtStep(st) ==
  IF st.pos = "loop" THEN outerStep(st)
  ELSE IF st.pos = "user" THEN userStep(st)
  ELSE IF st.pos = "block" THEN blockStep(st)
  ELSE IF st.pos = "thinking" THEN thinkingStep(st)
  ELSE toolCallStep(st)

\* the loops run to their end
RECURSIVE runTxt(_)
runTxt(st) == IF st.pos = "done" THEN st ELSE runTxt(txtStep(st))

\* parseTxtTranscript (257-291)
parseTxtTranscriptOf(file) ==
  IF file.state # "ok" THEN <<>> ELSE runTxt(startTxt(file.content)).messages

\* sub.id.substring(0, 8) (192), on the ids of the model
SubagentIds == << "sub-a", "subagent-b", "sub-c" >>

substring8(id) == IF id = "subagent-b" THEN "subagent" ELSE id

\* toLowerCase (199) of a symbol
toLowerCase(symbol) ==
  IF symbol \in { "Subagent", "SUBAGENT" } THEN "subagent" ELSE symbol

\* result[mi].content.toLowerCase().includes('subagent') (199): no two
\* symbols of the model make the word together
mentionsSubagent(content) ==
  \E k \in 1..Len(content) : toLowerCase(content[k]) = "subagent"

\* subMsg with the role of an assistant message
subagentMessageAsAssistant(sub) ==
  [role |-> "assistant",
   content |-> << "Subagent", ":", " ", substring8(sub.id) >>,
   subagent |-> sub]

\* subMsg (190-194)
subagentMessage(sub) ==
  [role |-> "subagent",
   content |-> << "Subagent", ":", " ", substring8(sub.id) >>,
   subagent |-> sub]

\* the inner loop (196-203): the index of the first message that is no
\* subagent message and mentions a subagent, 0 (for -1) when there is none
insertIdx(result) ==
  LET found == { mi \in 1..Len(result) :
                   /\ result[mi].role # "subagent"
                   /\ mentionsSubagent(result[mi].content) }
  IN  IF found = {} THEN 0
      ELSE CHOOSE mi \in found : \A f \in found : mi <= f

\* the loop of placeSubagents with a splice that takes the place of the
\* message found
RECURSIVE placeFromReplacing(_, _, _, _)
placeFromReplacing(result, placed, subagents, si) ==
  IF si > Len(subagents) THEN result
  ELSE LET subMsg == subagentMessage(subagents[si].sub)
           at == insertIdx(result)
       IN  IF at >= 1 /\ at \notin placed
             THEN placeFromReplacing(SubSeq(result, 1, at - 1) \o << subMsg >>
                                       \o SubSeq(result, at + 1, Len(result)),
                                     placed \cup { at }, subagents, si + 1)
             ELSE placeFromReplacing(result \o << subMsg >>, placed,
                                     subagents, si + 1)

\* the loop of placeSubagents (188-211) from the si-th subagent on; placed
\* holds the indexes (from 1) of the insertions made
RECURSIVE placeFrom(_, _, _, _)
placeFrom(result, placed, subagents, si) ==
  IF si > Len(subagents) THEN result
  ELSE LET subMsg == subagentMessage(subagents[si].sub)
           at == insertIdx(result)
       IN  IF at >= 1 /\ at \notin placed
             THEN placeFrom(SubSeq(result, 1, at - 1) \o << subMsg >>
                              \o SubSeq(result, at, Len(result)),
                            placed \cup { at }, subagents, si + 1)
             ELSE placeFrom(result \o << subMsg >>, placed, subagents, si + 1)

\* placeSubagents (181-214)
placeSubagents(messages, subagents) == placeFrom(messages, {}, subagents, 1)

\* An entry of the subagents directory: its name is id.jsonl or something
\* else; its file is unreadable or has lines; stat of it throws or gives
\* its birthtime
SubagentEntry(id, jsonl, file, stat, birthtime) ==
  [id |-> id, jsonl |-> jsonl, file |-> file, stat |-> stat,
   birthtime |-> birthtime]

SubagentFiles ==
  { UnreadableFile,
    FileOf(<< EntryLine("assistant", << TextBlock(<< "x" >>) >>) >>) }

SubagentEntriesOf(id) ==
  { SubagentEntry(id, FALSE, FileOf(<<>>), "ok", 1) }
    \cup { SubagentEntry(id, TRUE, file, stat, birthtime) :
             file \in SubagentFiles, stat \in { "ok", "throws" },
             birthtime \in 1..2 }

\* the entries in the order readdir gives them, here the order of their ids
RECURSIVE SubagentEntryLists(_)
SubagentEntryLists(n) ==
  IF n = 0 THEN { <<>> }
  ELSE { shorter \o tail :
           shorter \in SubagentEntryLists(n - 1),
           tail \in { <<>> } \cup { << e >> : e \in SubagentEntriesOf(SubagentIds[n]) } }

\* the subagents directory: missing (access throws), not a directory that
\* can be read (readdir throws), or with entries
SubagentDirs ==
  { [state |-> "missing", entries |-> <<>>],
    [state |-> "notdir", entries |-> <<>>] }
    \cup { [state |-> "ok", entries |-> entries] :
             entries \in SubagentEntryLists(MaxSubagents) }

\* the body of the loop of loadSubagents (163-174): what it pushes
subagentOf(entry) ==
  IF ~entry.jsonl THEN <<>>
  ELSE << [sub |-> [id |-> entry.id,
                    messages |-> parseJsonlTranscriptOf(entry.file),
                    createdAt |-> entry.birthtime],
           createdAt |-> entry.birthtime] >>

RECURSIVE subagentsFrom(_, _)
subagentsFrom(entries, k) ==
  IF k > Len(entries) THEN <<>>
  ELSE subagentOf(entries[k]) \o subagentsFrom(entries, k + 1)

\* the results left in the order readdir gave the files
sortSubagentsKeepsOrder(items, k) == SubSeq(items, 1, k)

\* results.sort((a, b) => a.createdAt - b.createdAt) (177) on the first k
RECURSIVE sortSubagents(_, _)
sortSubagents(items, k) ==
  IF k = 0 THEN <<>>
  ELSE LET RECURSIVE place(_)
           place(s) ==
             IF s = <<>> THEN << items[k] >>
             ELSE IF items[k].createdAt < s[Len(s)].createdAt
               THEN place(SubSeq(s, 1, Len(s) - 1)) \o << s[Len(s)] >>
               ELSE s \o << items[k] >>
       IN  place(sortSubagents(items, k - 1))

\* loadSubagents (148-179): readdir (159) and stat (166) are in no try
loadSubagents(dir) ==
  IF dir.state = "missing" THEN Returned(<<>>)
  ELSE IF dir.state = "notdir" THEN Rejected
  ELSE IF \E k \in 1..Len(dir.entries) :
            dir.entries[k].jsonl /\ dir.entries[k].stat = "throws"
    THEN Rejected
  ELSE LET results == subagentsFrom(dir.entries, 1)
       IN  Returned(sortSubagents(results, Len(results)))

\* the transcripts of the conversation in the model
JsonlFiles ==
  { MissingFile, UnreadableFile, FileOf(<<>>), FileOf(<< MalformedLine >>),
    FileOf(<< EntryLine("user", << TextBlock(<< "x" >>) >>) >>),
    FileOf(<< EntryLine("user", << TextBlock(<< "x" >>) >>),
              EntryLine("assistant", << TextBlock(<< "Subagent", " ", "x" >>) >>) >>) }

TxtFiles ==
  { MissingFile, UnreadableFile, FileOf(<< << "x" >> >>),
    FileOf(<< userMarker, << "x", "x" >>, assistantMarker, << "x" >>, << "x" >> >>) }

\* what loadConversation has done: the parser it called, the messages the
\* parser returned, and what the promise resolved to
NotLoaded == [done |-> FALSE, threw |-> FALSE, value |-> <<>>,
              parser |-> "none", parent |-> <<>>]

Loaded(parser, parent, subagents) ==
  [done |-> TRUE, threw |-> subagents.threw,
   value |-> IF subagents.threw THEN <<>>
             ELSE IF Len(subagents.value) > 0
               THEN placeSubagents(parent, subagents.value)
             ELSE parent,
   parser |-> parser, parent |-> parent]

\* loadConversation with the plain-text transcript tried first
loadConversationTxtFirst(projectId, files) ==
  IF projectId = <<>>
    THEN [NotLoaded EXCEPT !.done = TRUE]
  ELSE IF files.txt.state # "missing"
    THEN Loaded("txt", parseTxtTranscriptOf(files.txt),
                loadSubagents(files.subagents))
  ELSE IF files.jsonl.state # "missing"
    THEN Loaded("jsonl", parseJsonlTranscriptOf(files.jsonl),
                loadSubagents(files.subagents))
  ELSE [NotLoaded EXCEPT !.done = TRUE]

\* loadConversation (119-146); projectId is << >> when it is not given
loadConversationOf(projectId, files) ==
  IF projectId = <<>>
    THEN [NotLoaded EXCEPT !.done = TRUE]
  ELSE IF files.jsonl.state # "missing"
    THEN Loaded("jsonl", parseJsonlTranscriptOf(files.jsonl),
                loadSubagents(files.subagents))
  ELSE IF files.txt.state # "missing"
    THEN Loaded("txt", parseTxtTranscriptOf(files.txt),
                loadSubagents(files.subagents))
  ELSE [NotLoaded EXCEPT !.done = TRUE]

LoadInit ==
  /\ \E jsonl \in JsonlFiles, txt \in TxtFiles, subagents \in SubagentDirs :
       adapter = [files |-> [jsonl |-> jsonl, txt |-> txt,
                             subagents |-> subagents],
                  projectId |-> <<>>, outcome |-> NotLoaded]
  /\ playerIdle

loadConversation ==
  /\ ~adapter.outcome.done
  /\ \E projectId \in { <<>>, << "Users-x-Code-alpha" >> } :
       adapter' = [adapter EXCEPT
                     !.projectId = projectId,
                     !.outcome = loadConversationOf(projectId, adapter.files)]
  /\ playerUnchanged

LoadNext == loadConversation

LoadSpec == LoadInit /\ [][LoadNext]_vars

\* ---- the .txt parser step by step (cursor.ts 257-395) ---------------------
MaxTxtLines == 3     \* lines of a .txt transcript after its first lines

\* lines of a .txt transcript: the markers, the three sections, arguments
\* (two keys, the key __proto__, a key that is no name), an indented line
\* without ': ', a blank line, a line of text
TxtLines ==
  { userMarker, assistantMarker,
    << "[Thinking]", " ", "x" >>,
    << "[Tool call]", " ", "Read" >>,
    << "[Tool result]", " ", "Read" >>,
    << "  ", "path", ": ", "x" >>,
    << "  ", "q", ": ", "x" >>,
    << "  ", "__proto__", ": ", "x" >>,
    << "  ", "1", "x", ": ", "x" >>,
    << "  ", "x" >>,
    <<>>,
    << "x" >> }

\* the first lines of the transcripts of the model: none, the start of a
\* user block, of an assistant block, of a [Tool call] section
TxtHeads ==
  { <<>>, << userMarker >>, << assistantMarker >>,
    << assistantMarker, << "[Tool call]", " ", "Read" >> >> }

TxtBodies == UNION { [1..n -> TxtLines] : n \in 0..MaxTxtLines }

\* parseTxtTranscript was not called yet
TxtInit ==
  /\ adapter = [startTxt(<<>>) EXCEPT !.pos = "start"]
  /\ playerIdle

\* parseTxtTranscript is called: the file is read and split into its lines
\* (258-268)
readTxt ==
  /\ adapter.pos = "start"
  /\ \E head \in TxtHeads, body \in TxtBodies :
       adapter' = startTxt(head \o body)
  /\ playerUnchanged

\* the loop of parseTxtTranscript reads a line, or ends
scanLine ==
  /\ adapter.pos = "loop"
  /\ adapter' = outerStep(adapter)
  /\ playerUnchanged

\* the loop of the user block reads a line, or ends
userLine ==
  /\ adapter.pos = "user"
  /\ adapter' = userStep(adapter)
  /\ playerUnchanged

\* the loop of parseAssistantBlock reads a line, or ends
blockLine ==
  /\ adapter.pos = "block"
  /\ adapter' = blockStep(adapter)
  /\ playerUnchanged

\* the loop of the [Thinking] section reads a line, or ends
thinkingLine ==
  /\ adapter.pos = "thinking"
  /\ adapter' = thinkingStep(adapter)
  /\ playerUnchanged

\* the loop of the [Tool call] section reads a line, or ends
toolCallLine ==
  /\ adapter.pos = "toolcall"
  /\ adapter' = toolCallStep(adapter)
  /\ playerUnchanged

TxtNext ==
  \/ readTxt
  \/ scanLine
  \/ userLine
  \/ blockLine
  \/ thinkingLine
  \/ toolCallLine

TxtSpec == TxtInit /\ [][TxtNext]_vars

\* ---- subagent placement (cursor.ts 140-143, 148-214) ----------------------
MaxParent == 3       \* messages of the parent conversation

\* messages of a parent: without a mention of a subagent, and with one; a
\* thinking message comes from a .txt transcript
ParentMessages ==
  { [role |-> "user", content |-> << "x" >>],
    [role |-> "assistant", content |-> << "x" >>],
    [role |-> "assistant", content |-> << "x", " ", "Subagent" >>],
    [role |-> "thinking", content |-> << "subagent", " ", "x" >>] }

Parents == UNION { [1..n -> ParentMessages] : n \in 0..MaxParent }

\* the readable .jsonl files of a subagents directory, with their birthtime
PlacedEntries ==
  { SubagentEntry(SubagentIds[n], TRUE,
                  FileOf(<< EntryLine("assistant", << TextBlock(<< "x" >>) >>) >>),
                  "ok", birthtime) :
      n \in 1..MaxSubagents, birthtime \in 1..2 }

PlacedDirs ==
  { entries \in SUBSET PlacedEntries :
      \A a, b \in entries : a.id = b.id => a = b }

\* the orders in which readdir can give the entries
readdirOrders(entries) ==
  { order \in [1..Cardinality(entries) -> entries] :
      \A i, j \in 1..Cardinality(entries) : i # j => order[i] # order[j] }

NotRun == [done |-> FALSE, order |-> <<>>, value |-> <<>>]

\* lines 140-143 of loadConversation for the messages of the parent and the
\* entries of the subagents directory in the order readdir gave them
withSubagents(messages, order) ==
  LET subagents == loadSubagents([state |-> "ok", entries |-> order])
  IN  [done |-> TRUE, order |-> order,
       value |-> IF Len(subagents.value) > 0
                   THEN placeSubagents(messages, subagents.value)
                   ELSE messages]

PlaceInit ==
  /\ \E messages \in Parents, entries \in PlacedDirs :
       adapter = [messages |-> messages, entries |-> entries,
                  first |-> NotRun, second |-> NotRun]
  /\ playerIdle

\* the conversation is loaded, a first and a second time
placeRun ==
  /\ ~adapter.second.done
  /\ \E order \in readdirOrders(adapter.entries) :
       adapter' = IF ~adapter.first.done
                    THEN [adapter EXCEPT
                            !.first = withSubagents(adapter.messages, order)]
                    ELSE [adapter EXCEPT
                            !.second = withSubagents(adapter.messages, order)]
  /\ playerUnchanged

PlaceNext == placeRun

PlaceSpec == PlaceInit /\ [][PlaceNext]_vars

\* ---- the messages the parsers and the placement emit ----------------------
\* none of the producers of UnifiedMessage was called yet
EmitInit ==
  /\ adapter = [producer |-> "none", emitted |-> <<>>]
  /\ playerIdle

\* parseJsonlTranscript (cursor.ts 218-253) is called on a file
callParseJsonlTranscript ==
  /\ adapter.producer = "none"
  /\ \E content \in Transcripts :
       adapter' = [producer |-> "jsonl",
                   emitted |-> parseJsonlTranscriptOf(FileOf(content))]
  /\ playerUnchanged

\* parseTxtTranscript (cursor.ts 257-291) is called on a file
callParseTxtTranscript ==
  /\ adapter.producer = "none"
  /\ \E head \in TxtHeads, body \in TxtBodies :
       adapter' = [producer |-> "txt",
                   emitted |-> parseTxtTranscriptOf(FileOf(head \o body))]
  /\ playerUnchanged

\* parseGeminiApi (samples.ts 106-141) is called by parseAuto (93-94) and
\* returns
callParseGeminiApi ==
  /\ adapter.producer = "none"
  /\ \E data \in ExportData(MaxElements, MaxExportParts) :
       /\ data.kind = "array" /\ data.items # <<>>
       /\ data.items[1].kind # "null"
       /\ truthyRole(data.items[1]) /\ truthyParts(data.items[1])
       /\ ~parseGeminiApi(data.items).threw
       /\ adapter' = [producer |-> "parts",
                      emitted |-> parseGeminiApi(data.items).result]
  /\ playerUnchanged

\* loadConversation places the subagents among the messages of the parent
\* (cursor.ts 140-143)
callPlaceSubagents ==
  /\ adapter.producer = "none"
  /\ \E messages \in Parents, entries \in PlacedDirs :
       \E order \in readdirOrders(entries) :
         adapter' = [producer |-> "placement",
                     emitted |-> withSubagents(messages, order).value]
  /\ playerUnchanged

EmitNext ==
  \/ callParseJsonlTranscript
  \/ callParseTxtTranscript
  \/ callParseGeminiApi
  \/ callPlaceSubagents

EmitSpec == EmitInit /\ [][EmitNext]_vars

\* ---- chatPlaybackPlugin: the API middleware (part_005 14-75) --------------
MaxRequests == 2     \* requests the server gets

statusOk == 200
statusNotFound == 404
statusServerError == 500

\* the ids of the adapters the AdapterRegistry registers in its constructor
\* and getAdapter finds; the ids requests name
RegisteredSources == { "cursor", "gemini", "samples" }
RequestedSources == RegisteredSources \cup { "unknown-source" }

\* the conversation ids of the URLs and decodeURIComponent of them (46),
\* which throws a URIError on the third
ConversationIds == { "conv-1", "conv%201", "conv%" }
decodeURIComponent(id) ==
  IF id = "conv%201" THEN << "conv 1" >>
  ELSE IF id = "conv%" THEN <<>>
  ELSE << id >>

\* A request: the route its path matches ("page": a path outside /api/;
\* "api": a path under /api/ that matches no route), the source id and the
\* conversation id of the path, the projectId of the query (<< >> when it
\* is missing or empty).
Request(route, source, conversation, projectId) ==
  [route |-> route, source |-> source, conversation |-> conversation,
   projectId |-> projectId]

Requests ==
  { Request(route, "", "", <<>>) : route \in { "page", "api", "sources" } }
    \cup { Request("projects", source, "", <<>>) : source \in RequestedSources }
    \cup { Request("conversations", source, "", projectId) :
             source \in RequestedSources, projectId \in { <<>>, << "proj-1" >> } }
    \cup { Request("conversation", source, conversation, projectId) :
             source \in RequestedSources, conversation \in ConversationIds,
             projectId \in { <<>>, << "proj-1" >> } }

\* a rejection of the operation of the adapter: what it throws is an Error
\* with a message, or a value that is no Error
Thrown(isError, message) ==
  [done |-> TRUE, threw |-> TRUE,
   value |-> << [isError |-> isError, message |-> message] >>]

\* what the operation of the adapter does when it is called: it resolves
\* to an empty list or to a list of one item, or it rejects
AdapterResults ==
  { Returned(<<>>), Returned(<< [id |-> "item"] >>),
    Thrown(TRUE, "Disk read failed"), Thrown(FALSE, "") }

\* what the middleware did with a request: next() or a response (status
\* and body, the body being data or an error message), and the operation of
\* the adapter it called, if any
Passed == [next |-> TRUE, statusCode |-> 0, error |-> <<>>, data |-> <<>>,
           called |-> <<>>]

\* sendJson (65-69), sendError (71-75)
sendJson(data, status, called) ==
  [next |-> FALSE, statusCode |-> status, error |-> <<>>, data |-> data,
   called |-> called]
sendError(status, message, called) ==
  [next |-> FALSE, statusCode |-> status, error |-> << message >>,
   data |-> <<>>, called |-> called]

\* the catch of the middleware with the message of the version before
caughtInternalServerError(err, called) ==
  sendError(statusServerError, "Internal server error", called)

\* the catch of the middleware (55-59)
caught(err, called) ==
  sendError(statusServerError,
            IF err.isError THEN err.message ELSE "Internal server error",
            called)

\* the call of an operation of the adapter and the answer to it
answer(result, called) ==
  IF result.threw THEN caught(result.value[1], << called >>)
  ELSE sendJson(result.value, statusOk, << called >>)

\* the middleware with an empty conversation answered as not found
handleEmptyAsNotFound(request, result) ==
  IF request.route \in { "page", "api" } THEN Passed
  ELSE IF request.route = "sources" THEN sendJson(<< [id |-> "sources"] >>, statusOk, <<>>)
  ELSE IF request.source \notin RegisteredSources
    THEN sendError(statusNotFound,
                   << "Source '", request.source, "' not found" >>, <<>>)
  ELSE IF request.route = "conversation" /\ ~result.threw /\ result.value = <<>>
    THEN sendError(statusNotFound, << "not found" >>, <<>>)
  ELSE answer(result, [source |-> request.source, operation |-> request.route,
                       conversationId |-> <<>>,
                       projectId |-> request.projectId])

\* the middleware (14-60) for a request, result being what the operation
\* of the adapter does if it is called
handle(request, result) ==
  IF request.route = "page" THEN Passed
  ELSE IF request.route = "sources"
    THEN sendJson(<< [id |-> "sources"] >>, statusOk, <<>>)
  ELSE IF request.route = "api" THEN Passed
  ELSE IF request.source \notin RegisteredSources
    THEN sendError(statusNotFound,
                   << "Source '", request.source, "' not found" >>, <<>>)
  ELSE IF request.route = "projects"
    THEN answer(result, [source |-> request.source, operation |-> "listProjects",
                         conversationId |-> <<>>, projectId |-> <<>>])
  ELSE IF request.route = "conversations"
    THEN answer(result, [source |-> request.source,
                         operation |-> "listConversations",
                         conversationId |-> <<>>,
                         projectId |-> request.projectId])
  ELSE IF decodeURIComponent(request.conversation) = <<>>
    THEN caught([isError |-> TRUE, message |-> "URI malformed"], <<>>)
  ELSE answer(result, [source |-> request.source,
                       operation |-> "loadConversation",
                       conversationId |-> decodeURIComponent(request.conversation),
                       projectId |-> request.projectId])

\* does the middleware call the adapter for the request
callsAdapter(request) ==
  /\ request.route \in { "projects", "conversations", "conversation" }
  /\ request.source \in RegisteredSources
  /\ request.route = "conversation" =>
       decodeURIComponent(request.conversation) # <<>>

RouteInit ==
  /\ adapter = [requests |-> <<>>, results |-> <<>>, responses |-> <<>>]
  /\ playerIdle

\* the server gets a request and the middleware handles it
handleRequest ==
  /\ Len(adapter.requests) < MaxRequests
  /\ \E request \in Requests, result \in AdapterResults :
       /\ ~callsAdapter(request) => result = Returned(<<>>)
       /\ adapter' = [adapter EXCEPT
                        !.requests = Append(@, request),
                        !.results = Append(@, result),
                        !.responses = Append(@, handle(request, result))]
  /\ playerUnchanged

RouteNext == handleRequest

RouteSpec == RouteInit /\ [][RouteNext]_vars

\* ---- App: the selection of a conversation (App.tsx 64-138, 230-245) -------
MaxSelections == 2   \* conversations the user selects
MaxDrops == 1        \* files the user drops on the window

\* the conversations of the browser and what the API returns for them
ConversationInfos ==
  { [id |-> id, title |-> << "conv" >>, sourceId |-> sourceId] :
      id \in { "conv-a", "conv-b" }, sourceId \in { "cursor", "gemini" } }
messagesOfConversation(info) ==
  << [role |-> "user", content |-> << info.sourceId, info.id >>] >>

\* The name of a file is a sequence of symbols: words, the separators "-"
\* and "_", and the extensions ".json" and ".txt".
endsWith(name, suffix) == Len(name) > 0 /\ name[Len(name)] = suffix

\* name.replace('.json', ''): the first occurrence is left out
replaceFirst(name, pattern) ==
  LET found == { k \in 1..Len(name) : name[k] = pattern }
  IN  IF found = {} THEN name
      ELSE LET first == CHOOSE k \in found : \A j \in found : k <= j
           IN  SubSeq(name, 1, first - 1) \o SubSeq(name, first + 1, Len(name))

\* .replace(/[-_]/g, ' ')
replaceSeparators(name) ==
  [k \in 1..Len(name) |-> IF name[k] \in { "-", "_" } THEN " " ELSE name[k]]

\* the title of a dropped conversation (100)
titleOf(name) == replaceSeparators(replaceFirst(name, ".json"))

\* `dropped-${Date.now()}` (101), the clock read at the n-th load
droppedId(n) ==
  IF n = 1 THEN "dropped-1" ELSE IF n = 2 THEN "dropped-2" ELSE "dropped-3"

\* What is dropped: no file, or a file with its name and with what
\* parseConversationFile makes of its text (the messages, none, or an
\* exception thrown).
NoFile == [name |-> <<>>, parsed |-> Returned(<<>>)]

DroppedMessages ==
  << [role |-> "user", content |-> << "local-file", "dropped" >>] >>

DroppedFiles ==
  { NoFile, [name |-> << "notes", ".txt" >>, parsed |-> Returned(<<>>)] }
    \cup { [name |-> name, parsed |-> parsed] :
             name \in { << "my", "-", "chat", ".json" >>,
                        << "a", ".json", "_", "b", ".json" >> },
             parsed \in { Returned(DroppedMessages), Returned(<<>>),
                          Thrown(TRUE, "Unrecognized conversation format"),
                          Thrown(FALSE, "") } }

\* How a load fails: a response that is not ok, with its status and the
\* error field of its body (none when the body has no such field or is no
\* JSON), or a rejection of fetch or of response.json().
NotOk(status, error) ==
  [status |-> status, error |-> error, thrown |-> <<>>]
RejectedWith(isError, message) ==
  [status |-> 0, error |-> <<>>,
   thrown |-> << [isError |-> isError, message |-> message] >>]

Failures ==
  { NotOk(statusServerError, << "Disk read failed" >>),
    NotOk(statusNotFound, << "Source 'x' not found" >>),
    NotOk(statusNotFound, <<>>),
    NotOk(statusServerError, << "" >>),
    RejectedWith(TRUE, "Failed to fetch"),
    RejectedWith(FALSE, "") }

\* `HTTP ${response.status}` (126)
httpText(status) ==
  IF status = statusNotFound THEN "HTTP 404"
  ELSE IF status = statusServerError THEN "HTTP 500"
  ELSE "HTTP"

\* what is thrown inside the try (123-127) and what the catch makes of it
\* (133)
loadErrorOf(failure) ==
  LET err == IF failure.status # 0
               THEN [isError |-> TRUE,
                     message |-> IF failure.error # <<>> /\ failure.error[1] # ""
                                   THEN failure.error[1]
                                   ELSE httpText(failure.status)]
               ELSE failure.thrown[1]
  IN  IF err.isError THEN err.message ELSE "Failed to load conversation"

\* What localStorage holds under SETTINGS_KEY (34): text that JSON.parse
\* accepts or not, and the properties of the object it is the text of, each
\* missing (an empty sequence) or with its value.
StoredText(isJson, showThinking, showToolCalls, showToolResults, playbackSpeed) ==
  [json |-> isJson, showThinking |-> showThinking,
   showToolCalls |-> showToolCalls, showToolResults |-> showToolResults,
   playbackSpeed |-> playbackSpeed]

\* saveDisplaySettings (56-62) when setItem does not throw: the item is
\* JSON.stringify(settings)
saveDisplaySettings(settings) ==
  << StoredText(TRUE, << settings.showThinking >>, << settings.showToolCalls >>,
                << settings.showToolResults >>, << settings.playbackSpeed >>) >>

\* what the browser may hold when the App starts: no item, an item that is
\* no JSON, an object with the speed only, the settings saved by a session
\* before
StoredItems ==
  { <<>>,
    << StoredText(FALSE, <<>>, <<>>, <<>>, <<>>) >>,
    << StoredText(TRUE, <<>>, <<>>, <<>>, << 2 >>) >>,
    saveDisplaySettings([defaultDisplaySettings EXCEPT !.showToolCalls = FALSE]) }

\* loadDisplaySettings (43-54): stored is the item, none when getItem
\* returns null; { ...defaultDisplaySettings, ...parsed } takes a property
\* from parsed when it is there
loadDisplaySettings(stored) ==
  IF stored = <<>> THEN defaultDisplaySettings
  ELSE IF ~stored[1].json THEN defaultDisplaySettings
  ELSE LET parsed == stored[1]
       IN  [key \in DOMAIN defaultDisplaySettings |->
              IF parsed[key] # <<>> THEN parsed[key][1]
              ELSE defaultDisplaySettings[key]]

\* what DisplayControls.update makes of the settings it shows
\* (ConversationBrowser.tsx 276-278, 291, 308, 325): a checkbox switched or
\* a speed chosen
SettingsPatches ==
  { [key |-> key, value |-> value] :
      key \in { "showThinking", "showToolCalls", "showToolResults" },
      value \in BOOLEAN }
    \cup { [key |-> "playbackSpeed", value |-> speed] : speed \in Speeds }

MaxSettingsChanges == 1   \* changes of the display settings

\* the state of App after useState (65-70): conversation and conversationInfo
\* are null (an empty sequence) or a value (a sequence of it);
\* displaySettings starts as loadDisplaySettings returns it; stored is the
\* item of localStorage.  fetches are the calls of handleSelectConversation
\* that wait for their response, reads the FileReaders that have not loaded
\* yet; responses counts the loads that ended with a response that was ok,
\* changes the settings handed to onChange
AppInit ==
  /\ \E stored \in StoredItems :
       adapter = [conversation |-> <<>>, conversationInfo |-> <<>>,
                  displaySettings |-> loadDisplaySettings(stored),
                  stored |-> stored,
                  loading |-> FALSE, loadError |-> <<>>,
                  fetches |-> {}, selections |-> 0, responses |-> 0,
                  reads |-> {}, drops |-> 0, changes |-> 0]
  /\ playerIdle

\* onChange of DisplayControls (175): setDisplaySettings(s) and
\* saveDisplaySettings(s), whose setItem may throw (the catch of 60 leaves
\* the item as it was)
onChange ==
  /\ adapter.changes < MaxSettingsChanges
  /\ \E patch \in SettingsPatches, saved \in BOOLEAN :
       LET s == [adapter.displaySettings EXCEPT ![patch.key] = patch.value]
       IN  adapter' = [adapter EXCEPT
                         !.displaySettings = s,
                         !.stored = IF saved THEN saveDisplaySettings(s) ELSE @,
                         !.changes = @ + 1]
  /\ playerUnchanged

\* handleSelectConversation up to await fetch(url) (113-121)
handleSelectConversation ==
  /\ adapter.selections < MaxSelections
  /\ \E info \in ConversationInfos :
       adapter' = [adapter EXCEPT
                     !.conversationInfo = << info >>,
                     !.conversation = <<>>,
                     !.loading = TRUE,
                     !.loadError = <<>>,
                     !.selections = @ + 1,
                     !.fetches = @ \cup { [n |-> adapter.selections + 1,
                                           info |-> info] }]
  /\ playerUnchanged

\* the response of a fetch has come and is ok: handleSelectConversation
\* from response.json() on (128-129, 134-136)
fetchResolved ==
  /\ \E fetch \in adapter.fetches :
       adapter' = [adapter EXCEPT
                     !.conversation = << messagesOfConversation(fetch.info) >>,
                     !.loading = FALSE,
                     !.responses = @ + 1,
                     !.fetches = @ \ { fetch }]
  /\ playerUnchanged

\* the fetch has failed or its response is not ok: the catch of
\* handleSelectConversation (123-126, 130-136)
fetchFailed ==
  /\ \E fetch \in adapter.fetches, failure \in Failures :
       adapter' = [adapter EXCEPT
                     !.loadError = << loadErrorOf(failure) >>,
                     !.conversation = << <<>> >>,
                     !.loading = FALSE,
                     !.fetches = @ \ { fetch }]
  /\ playerUnchanged

\* handleDrop up to reader.readAsText(file) (84-110)
handleDrop ==
  /\ adapter.drops < MaxDrops
  /\ \E file \in DroppedFiles :
       adapter' =
         IF file = NoFile \/ ~endsWith(file.name, ".json")
           THEN [adapter EXCEPT
                   !.loadError = << "Please drop a .json conversation file" >>,
                   !.drops = @ + 1]
           ELSE [adapter EXCEPT
                   !.reads = @ \cup { [n |-> adapter.drops + 1, file |-> file] },
                   !.drops = @ + 1]
  /\ playerUnchanged

\* reader.onload (95-108): the text of the file has been read
readerLoaded ==
  /\ \E read \in adapter.reads :
       LET parsed == read.file.parsed
           left == [adapter EXCEPT !.reads = @ \ { read }]
       IN  adapter' =
             IF parsed.threw
               THEN [left EXCEPT !.loadError =
                       << IF parsed.value[1].isError
                            THEN parsed.value[1].message
                            ELSE "Failed to parse dropped file" >>]
             ELSE IF Len(parsed.value) = 0
               THEN [left EXCEPT !.loadError =
                       << "No messages found in the dropped file" >>]
             ELSE [left EXCEPT
                     !.conversationInfo =
                        << [id |-> droppedId(read.n),
                            title |-> titleOf(read.file.name),
                            sourceId |-> "local-file"] >>,
                     !.conversation = << parsed.value >>,
                     !.loadError = <<>>]
  /\ playerUnchanged

\* onClose of the Snackbar and of the Alert (240, 243), which are there
\* while loadError is set
onClose ==
  /\ adapter.loadError # <<>>
  /\ adapter' = [adapter EXCEPT !.loadError = <<>>]
  /\ playerUnchanged

\* the conversation prop of ChatContainer (231): null while loading
conversationProp == IF adapter.loading THEN <<>> ELSE adapter.conversation

AppNext ==
  \/ handleSelectConversation
  \/ fetchResolved
  \/ fetchFailed
  \/ handleDrop
  \/ readerLoaded
  \/ onClose
  \/ onChange

AppSpec == AppInit /\ [][AppNext]_vars

\* ==== properties ===========================================================
cursor == currentIndexRef

\* the slots that show entries j..k of the expanded sequence: a placeholder
\* and the message after it make one slot, which holds the message once both
\* are within the range and the placeholder until then
RECURSIVE slotsOf(_, _, _)
slotsOf(history, j, k) ==
  IF j > k THEN <<>>
  ELSE IF isPlaceholder(history[j]) /\ j + 1 <= k
    THEN << history[j + 1] >> \o slotsOf(history, j + 2, k)
  ELSE << history[j] >> \o slotsOf(history, j + 1, k)

\* the same entry, whatever the approval status shown
sameSlot(a, b) == [a EXCEPT !.approval = "none"] = [b EXCEPT !.approval = "none"]

showsPrefix(displayed, history, k) ==
  LET slots == slotsOf(history, 1, k)
  IN  /\ Len(displayed) = Len(slots)
      /\ \A n \in 1..Len(slots) : sameSlot(displayed[n], slots[n])

\* playback has run to its end: nothing is in progress, nothing is pending,
\* and something has been displayed
Finished ==
  /\ ~loading
  /\ ~animationInProgressRef
  /\ displayedHistory # <<>>

\* C1: in every reachable state of the engine the displayed list is exactly
\* the prefix [0, cursor) of the expanded sequence, a placeholder/resolved
\* pair being one slot, and 0 <= cursor <= length of the expanded sequence.
C1_DisplayedIsCursorPrefix ==
  /\ 0 <= cursor /\ cursor <= Len(transformedHistoryRef)
  /\ showsPrefix(displayedHistory, transformedHistoryRef, cursor)

\* C2: a step forward taken when the next entry is a placeholder appends one
\* slot holding the message that follows it and advances the cursor by 2;
\* after any accepted step forward no placeholder is in the displayed list.
C2_StepForwardResolvesPair ==
  [][ (stepForward /\ cursor < Len(transformedHistoryRef)) =>
        /\ isPlaceholder(transformedHistoryRef[cursor + 1]) =>
             /\ cursor + 2 <= Len(transformedHistoryRef)
             /\ transformedHistoryRef[cursor + 2].role = "model"
             /\ displayedHistory' =
                  Append(displayedHistory, transformedHistoryRef[cursor + 2])
             /\ cursor' = cursor + 2
        /\ \A n \in 1..Len(displayedHistory') :
             ~isPlaceholder(displayedHistory'[n]) ]_vars

\* a step forward has just resolved an approval / tool-call pair
C2_Witness ==
  /\ log.event = "stepForward" /\ log.accepted
  /\ cursor >= 2
  /\ transformedHistoryRef[cursor - 1].role = "approval"
  /\ displayedHistory[Len(displayedHistory)] = transformedHistoryRef[cursor]

\* C3: a step backward removes exactly the last displayed slot; the cursor
\* goes back by 2 when that slot was the resolved half of a pair and by 1
\* otherwise, so that the next step forward shows the same message again and
\* not the placeholder.
C3_StepBackwardRemovesOneSlot ==
  [][ (stepBackward /\ Len(displayedHistory) > 0) =>
        LET removed == displayedHistory[Len(displayedHistory)]
            wasPair == /\ cursor >= 2
                       /\ isPlaceholder(transformedHistoryRef[cursor - 1])
        IN  /\ displayedHistory' =
                 SubSeq(displayedHistory, 1, Len(displayedHistory) - 1)
            /\ cursor' = cursor - (IF wasPair THEN 2 ELSE 1)
            /\ cursor' >= 0
            /\ LET again == IF /\ cursor' + 1 < Len(transformedHistoryRef)
                               /\ isPlaceholder(transformedHistoryRef[cursor' + 1])
                              THEN transformedHistoryRef[cursor' + 2]
                              ELSE transformedHistoryRef[cursor' + 1]
               IN  again = removed /\ ~isPlaceholder(again) ]_vars

\* a step backward has just taken a resolved pair away
C3_Witness ==
  /\ log.event = "stepBackward" /\ log.accepted
  /\ cursor + 1 < Len(transformedHistoryRef)
  /\ isPlaceholder(transformedHistoryRef[cursor + 1])
  /\ Len(displayedHistory) = 1

\* C4: from cursor 0 with nothing displayed, N steps forward followed by N
\* steps backward leave the cursor at 0 and the displayed list empty.
C4_StepRewindSymmetry ==
  (log.inOrder /\ log.forward = log.backward) =>
    (cursor = 0 /\ displayedHistory = <<>>)

\* two steps forward, over a message and a pair, then two steps backward
C4_Witness ==
  /\ log.inOrder /\ log.forward = 2 /\ log.backward = 2
  /\ Len(transformedHistoryRef) = 3
  /\ log.event = "stepBackward" /\ log.accepted

\* C5: when playback that was paused and resumed has finished, every message
\* of the expanded sequence occupies exactly one displayed slot, none shown
\* twice and none skipped.
C5_ResumeNeitherReplaysNorSkips ==
  (Finished /\ timers = {}) =>
    showsPrefix(displayedHistory, transformedHistoryRef,
                Len(transformedHistoryRef))

\* C6: a timer that fires after its wait was superseded by pause or restart
\* changes neither the cursor nor the displayed list.
C6_SupersededTimerIsNoop ==
  [][ \A t \in timers :
        (t.superseded
           /\ (startTimerFires(t) \/ resumeTimerFires(t) \/ waitTimerFires(t)))
        => UNCHANGED << currentIndexRef, currentMessageIndex,
                        displayedHistory >> ]_vars

\* C7: restart, from any state, leaves no timer of before pending, the cursor
\* at 0 and the displayed list empty; with a non-empty expanded sequence the
\* engine is then playing from index 0 (its start timer the only one pending),
\* with an empty one it is idle.
C7_RestartResets ==
  [][ restartAnimation =>
        /\ cursor' = 0 /\ currentMessageIndex' = 0
        /\ displayedHistory' = <<>>
        /\ animationTimeoutRef' = null
        /\ ~isPausedRef'
        /\ IF Len(transformedHistoryRef) > 0
             THEN /\ animationInProgressRef'
                  /\ Cardinality(timers') = 1
                  /\ \A t \in timers' : t.kind = "start" /\ ~t.superseded
             ELSE /\ ~animationInProgressRef'
                  /\ timers' = {} ]_vars

\* C8: when continuous playback has applied the last entry the engine is
\* finished: no timer is pending and the cursor equals the length of the
\* expanded sequence.
C8_FinishedKeepsCursorAtEnd ==
  Finished =>
    /\ timers = {}
    /\ cursor = Len(transformedHistoryRef)
    /\ currentMessageIndex = Len(transformedHistoryRef)

\* C9: a step forward with the cursor at the end of the expanded sequence,
\* and a step backward with the cursor at 0 and nothing displayed, change
\* neither the cursor, nor the displayed list, nor the play state.
C9_StepAtBoundaryIsNoop ==
  [][ ( \/ stepForward /\ cursor = Len(transformedHistoryRef)
        \/ stepBackward /\ cursor = 0 /\ displayedHistory = <<>> )
      => UNCHANGED << currentIndexRef, currentMessageIndex, displayedHistory,
                      isPausedRef, animationInProgressRef, animationTimeoutRef,
                      timers >> ]_vars

\* a step forward was refused at the end of a conversation that has messages
C9_Witness ==
  /\ log.event = "stepForward" /\ ~log.accepted
  /\ Len(transformedHistoryRef) > 0
  /\ cursor = Len(transformedHistoryRef)
  /\ Len(displayedHistory) > 0

\* C11: with a non-empty conversation loaded, the Play/Pause button takes an
\* idle engine to playing, a playing engine to paused and a paused engine
\* back to playing.
C11_ToggleCyclesPlayStates ==
  [][ (chatHistory # <<>>
         /\ (playAnimation \/ pauseAnimation \/ resumeAnimation)) =>
        /\ playState = "idle" => playState' = "playing"
        /\ playState = "playing" => playState' = "paused"
        /\ playState = "paused" => playState' = "playing" ]_vars

\* the kinds of message: an assistant message is a message of role "model"
\* without a functionCall part, a tool call one with a functionCall part
isAssistant(message) ==
  message.role = "model" /\ ~hasFunctionCall(message)

isToolCall(message) == message.role = "model" /\ hasFunctionCall(message)

isThinkingAnimation(message) == message = thinkingMessage

isApproval(message) == message.role = "approval"

positionsOf(message, history) ==
  { j \in 1..Len(history) : history[j] = message }

\* C13: for every input and every settings value, each assistant message
\* yields exactly one thinking placeholder immediately followed by that
\* message, each tool call that passes the filter yields exactly one pending
\* approval of the same call immediately followed by that tool call, and the
\* output has no other placeholder or approval entry.
C13_PairExpansion ==
  ~loading =>
    LET out == transformedHistoryRef
        assistants == { k \in 1..Len(chatHistory) : isAssistant(chatHistory[k]) }
        toolCalls == { k \in 1..Len(chatHistory) :
                         isToolCall(chatHistory[k]) /\ displaySettings.showToolCalls }
    IN  /\ \A k \in assistants :
             /\ Cardinality(positionsOf(chatHistory[k], out)) = 1
             /\ \A j \in positionsOf(chatHistory[k], out) :
                  j > 1 /\ isThinkingAnimation(out[j - 1])
        /\ \A k \in toolCalls :
             /\ Cardinality(positionsOf(chatHistory[k], out)) = 1
             /\ \A j \in positionsOf(chatHistory[k], out) :
                  /\ j > 1 /\ isApproval(out[j - 1])
                  /\ out[j - 1].approval = "pending"
                  /\ out[j - 1].functionCallToApprove = chatHistory[k].id
        /\ Cardinality({ j \in 1..Len(out) : isThinkingAnimation(out[j]) })
             = Cardinality(assistants)
        /\ Cardinality({ j \in 1..Len(out) : isApproval(out[j]) })
             = Cardinality(toolCalls)

\* C14: with showThinking false the output has no thinking message (an entry
\* of role "thinking" other than the placeholder), with showToolCalls false
\* no tool call and no approval, with showToolResults false no tool result.
C14_VisibilityFilter ==
  ~loading =>
    \A j \in 1..Len(transformedHistoryRef) :
      LET entry == transformedHistoryRef[j] IN
      /\ ~displaySettings.showThinking =>
           (entry.role = "thinking" => isThinkingAnimation(entry))
      /\ ~displaySettings.showToolCalls =>
           (~isToolCall(entry) /\ ~isApproval(entry))
      /\ ~displaySettings.showToolResults =>
           (entry.role # "system" /\ ~hasFunctionResponse(entry))

\* a tool call and a tool result were both filtered out, nothing is left
C14_Witness ==
  /\ ~loading
  /\ ~displaySettings.showToolCalls /\ ~displaySettings.showToolResults
  /\ \E k \in 1..Len(chatHistory) : isToolCall(chatHistory[k])
  /\ \E k \in 1..Len(chatHistory) : hasFunctionResponse(chatHistory[k])
  /\ transformedHistoryRef = <<>>

\* C15: the output without its thinking placeholders and approvals is exactly
\* the sequence of the input messages that pass the filter, in input order,
\* each with its role and payload unchanged.
C15_ExpansionKeepsMessages ==
  ~loading =>
    SelectSeq(transformedHistoryRef,
              LAMBDA entry : ~isThinkingAnimation(entry) /\ ~isApproval(entry))
      = filterVisible(chatHistory, displaySettings)

\* the parse has gone over every line and returns
parsed == adapter.line > Len(adapter.lines)

\* the messages of the lines from the k-th on that JSON.parse accepts
RECURSIVE derivableFrom(_, _)
derivableFrom(content, k) ==
  IF k > Len(content) THEN <<>>
  ELSE IF content[k].kind \in { "entry", "null" }
    THEN lineMessages(content[k]) \o derivableFrom(content, k + 1)
  ELSE derivableFrom(content, k + 1)

\* C17: whatever lines of the file are not valid JSON, the parser returns
\* exactly the messages of the valid lines, in the order of the lines: an
\* invalid line neither ends the parse nor loses a later valid line, a line
\* yields at most one message, and no message has an empty content.
C17_MalformedLinesSkipped ==
  parsed =>
    /\ adapter.messages = derivableFrom(adapter.content, 1)
    /\ \A n \in 1..Len(adapter.messages) : adapter.messages[n].content # <<>>
    /\ Len(adapter.messages)
         = Cardinality({ k \in 1..Len(adapter.content) :
                           /\ adapter.content[k].kind = "entry"
                           /\ textPartsOf(adapter.content[k].content) # <<>>
                           /\ ( IF adapter.content[k].role = "assistant"
                                  THEN join(textPartsOf(adapter.content[k].content))
                                  ELSE extractUserContent(
                                         join(textPartsOf(adapter.content[k].content))) )
                                # <<>> })

\* the assistant line after a line that is not JSON was parsed
C17_Witness ==
  /\ parsed
  /\ adapter.content = << MalformedLine, EntryLine("assistant", << TextBlock(<< "x" >>) >>) >>
  /\ adapter.messages = << [role |-> "assistant", content |-> << "x" >>] >>

\* C18: content extraction is idempotent: applied to what it returned, it
\* returns the same text.
C18_ExtractionIdempotent ==
  adapter.extractions = 2 => adapter.cleaned = extractUserContent(adapter.text)

\* the complete <user_query>...</user_query> regions of a text, as pairs of
\* the index after the opening tag and the index of the closing tag
userQueryRegions(text) ==
  { r \in (1..Len(text)) \X (1..Len(text)) :
      /\ matchesAt(text, openTag("user_query"), r[1] - 3)
      /\ matchesAt(text, closeTag("user_query"), r[2])
      /\ r[1] <= r[2] }

\* C19: when the raw text has a <user_query>...</user_query> region, the
\* extraction returns exactly the trimmed inner text of that region (the
\* leftmost one, up to its first closing tag), whatever surrounds it.
C19_UserQueryInnerText ==
  (adapter.extractions = 1 /\ userQueryRegions(adapter.text) # {}) =>
    \E r \in userQueryRegions(adapter.text) :
      /\ \A q \in userQueryRegions(adapter.text) :
           r[1] < q[1] \/ (r[1] = q[1] /\ r[2] <= q[2])
      /\ adapter.cleaned = trim(SubSeq(adapter.text, r[1], r[2] - 1))

\* the inner text of a region between a wrapper and a stray closing tag
C19_Witness ==
  /\ adapter.extractions = 1
  /\ adapter.text = closeTag("git_status") \o openTag("user_query")
                      \o << "x" >> \o closeTag("user_query")
  /\ adapter.cleaned = << "x" >>

\* the indices of a text that lie in a complete <tag>...</tag> region of a
\* wrapper tag
inWrapperRegion(text) ==
  UNION { UNION { { k \in s..(e + 3) :
                      /\ matchesAt(text, openTag(tagsToStrip[n]), s)
                      /\ matchesAt(text, closeTag(tagsToStrip[n]), e)
                      /\ s + 3 <= e } :
                  s \in 1..Len(text), e \in 1..Len(text) } :
          n \in 1..Len(tagsToStrip) }

\* the characters of a text at the indices that are not among the covered
RECURSIVE withoutCovered(_, _, _)
withoutCovered(text, covered, k) ==
  IF k > Len(text) THEN <<>>
  ELSE IF k \in covered THEN withoutCovered(text, covered, k + 1)
  ELSE << text[k] >> \o withoutCovered(text, covered, k + 1)

outsideWrappers(text) == withoutCovered(text, inWrapperRegion(text), 1)

\* a is b with some of its elements left out
RECURSIVE isSubsequence(_, _)
isSubsequence(a, b) ==
  IF a = <<>> THEN TRUE
  ELSE IF b = <<>> THEN FALSE
  ELSE IF Head(a) = Head(b) THEN isSubsequence(Tail(a), Tail(b))
  ELSE isSubsequence(a, Tail(b))

\* C20: when the raw text has no <user_query> region, the extraction takes
\* away only complete regions of the wrapper tags: what it returns is made
\* of characters of the text in their order, and every character outside
\* those regions is in it, apart from white space trimmed at the two ends.
C20_OnlyWrapperRegionsRemoved ==
  (adapter.extractions = 1 /\ userQueryRegions(adapter.text) = {}) =>
    /\ isSubsequence(adapter.cleaned, adapter.text)
    /\ isSubsequence(trim(outsideWrappers(adapter.text)), adapter.cleaned)

\* an element with a role and an array of parts; an element with a role and
\* a string content
isPartsElement(element) ==
  /\ element.kind = "object" /\ element.role # <<>>
  /\ element.partsKind = "array"
  /\ \A k \in 1..Len(element.parts) : element.parts[k].kind = "object"

isContentElement(element) ==
  /\ element.kind = "object" /\ element.role # <<>>
  /\ element.content # <<>> /\ element.content[1].type = "string"

isPartsArray(data) ==
  /\ data.kind = "array"
  /\ \A k \in 1..Len(data.items) : isPartsElement(data.items[k])

isContentArray(data) ==
  /\ data.kind = "array"
  /\ \A k \in 1..Len(data.items) : isContentElement(data.items[k])

\* C21: the parser of the structured export signals a failure (it throws, or
\* it warns of an unrecognized format) for every input that is neither an
\* array of role+parts elements nor an array of role+content elements; for
\* the empty array it returns no message and signals nothing.
C21_UnrecognizedFormatSignalled ==
  adapter.outcome # NoOutcome =>
    /\ ( ~isPartsArray(adapter.data) /\ ~isContentArray(adapter.data) )
         => ( adapter.outcome.threw \/ adapter.outcome.warned )
    /\ ( adapter.data.kind = "array" /\ adapter.data.items = <<>> )
         => ( /\ adapter.outcome.returned /\ adapter.outcome.messages = <<>>
              /\ ~adapter.outcome.threw /\ ~adapter.outcome.warned )

\* the parts of the array with the role of their element, in the order of
\* the elements and then of the parts
RECURSIVE partsInOrder(_, _, _)
partsInOrder(items, e, p) ==
  IF e > Len(items) THEN <<>>
  ELSE IF p > Len(items[e].parts) THEN partsInOrder(items, e + 1, 1)
  ELSE << [role |-> items[e].role[1], part |-> items[e].parts[p]] >>
         \o partsInOrder(items, e, p + 1)

\* a part of the format: a function call with its args, or a function
\* response with its response, or a text that is not empty (a part is read
\* as the first of these it carries)
isCallPart(part) ==
  part.functionCall # <<>> /\ part.functionCall[1].args # <<>>
isResponsePart(part) ==
  /\ part.functionCall = <<>> /\ part.functionResponse # <<>>
  /\ part.functionResponse[1].response # <<>>
isTextPart(part) ==
  /\ part.functionCall = <<>> /\ part.functionResponse = <<>>
  /\ part.text # <<>> /\ part.text[1] # ""
isEmptyPart(part) ==
  /\ part.functionCall = <<>> /\ part.functionResponse = <<>>
  /\ ( part.text = <<>> \/ part.text[1] = "" )

isFormatArray(data) ==
  /\ isPartsArray(data) /\ data.items # <<>>
  /\ \A k \in 1..Len(data.items) : \A p \in 1..Len(data.items[k].parts) :
       LET part == data.items[k].parts[p]
       IN  isCallPart(part) \/ isResponsePart(part) \/ isTextPart(part)
             \/ isEmptyPart(part)

\* the message is the one of the part
messageOfPart(message, entry) ==
  IF isCallPart(entry.part)
    THEN /\ message.role = "tool_call"
         /\ message.content = entry.part.functionCall[1].name
         /\ message.toolResult = <<>>
         /\ Len(message.toolCall) = 1
         /\ message.toolCall[1].name = entry.part.functionCall[1].name
         /\ LET args == entry.part.functionCall[1].args[1]
                out == message.toolCall[1].args
            IN  /\ Len(out) = Len(args)
                /\ \A k \in 1..Len(args) :
                     /\ out[k].key = args[k].key
                     /\ out[k].value
                          = ( CASE args[k].value.type = "string" -> args[k].value.lit
                                [] args[k].value.type = "number" -> args[k].value.lit
                                [] args[k].value.type = "null" -> "null"
                                [] OTHER -> "[object Object]" )
  ELSE IF isResponsePart(entry.part)
    THEN /\ message.role = "tool_result"
         /\ message.toolCall = <<>>
         /\ Len(message.toolResult) = 1
         /\ message.toolResult[1].output
              = entry.part.functionResponse[1].response[1].output
         /\ message.toolResult[1].name = entry.part.functionResponse[1].name
         /\ message.content = entry.part.functionResponse[1].response[1].output
  ELSE /\ message.role = ( IF entry.role = "model" THEN "assistant" ELSE "user" )
       /\ message.content = entry.part.text[1]
       /\ message.toolCall = <<>> /\ message.toolResult = <<>>

\* C22: for an array of role+parts elements the parser returns, in the order
\* of the elements and then of the parts, one tool_call for each function
\* call part (its args as strings), one tool_result for each function
\* response part (its output the response's output) and one user or
\* assistant message for each text part (assistant when the role of the
\* element is model), and nothing else.
C22_PartsBecomeMessages ==
  ( adapter.outcome # NoOutcome /\ isFormatArray(adapter.data) ) =>
    LET emitting == SelectSeq(partsInOrder(adapter.data.items, 1, 1),
                              LAMBDA entry : ~isEmptyPart(entry.part))
    IN  /\ adapter.outcome.returned /\ ~adapter.outcome.threw
        /\ ~adapter.outcome.warned
        /\ adapter.loaded = adapter.outcome.messages
        /\ Len(adapter.outcome.messages) = Len(emitting)
        /\ \A k \in 1..Len(emitting) :
             messageOfPart(adapter.outcome.messages[k], emitting[k])

\* a model element with a function call and a text became a tool_call and
\* an assistant message in that order
C22_Witness ==
  /\ adapter.outcome # NoOutcome
  /\ adapter.data.kind = "array" /\ Len(adapter.data.items) = 1
  /\ adapter.data.items[1]
       = Element(<< "model" >>, "array",
                 << Part(<<>>, << searchCall >>, <<>>),
                    Part(<< "hi" >>, <<>>, <<>>) >>, <<>>)
  /\ Len(adapter.outcome.messages) = 2
  /\ adapter.outcome.messages[1].role = "tool_call"
  /\ adapter.outcome.messages[1].toolCall[1].args[3].value = "[object Object]"
  /\ adapter.outcome.messages[2].role = "assistant"
  /\ adapter.outcome.messages[2].content = "hi"

\* the entries of the directory whose transcript can be accessed
accessibleEntries(dir) ==
  { k \in 1..Len(dir.entries) :
      /\ dir.entries[k].kind \in { "dir", "txt" }
      /\ dir.entries[k].transcript = "ok" }

\* C23: listProjects and listConversations never throw; for a projects
\* directory or a project that is missing or cannot be read they return an
\* empty list; listConversations leaves out every entry whose transcript
\* cannot be accessed and returns every entry whose transcript can.
C23_ListingNeverThrows ==
  adapter.outcome.done =>
    /\ ~adapter.outcome.threw
    /\ adapter.dir.state # "ok" => adapter.outcome.value = <<>>
    /\ adapter.operation = "listProjects" =>
         { adapter.outcome.value[k].id : k \in 1..Len(adapter.outcome.value) }
           = { adapter.dir.entries[k].slug :
                 k \in { j \in 1..Len(adapter.dir.entries) :
                           adapter.dir.entries[j].transcripts } }
    /\ ( adapter.operation = "listConversations" /\ adapter.projectId # <<>> ) =>
         /\ Len(adapter.outcome.value) = Cardinality(accessibleEntries(adapter.dir))
         /\ { adapter.outcome.value[k].id : k \in 1..Len(adapter.outcome.value) }
              = { adapter.dir.entries[k].name : k \in accessibleEntries(adapter.dir) }

\* a listing of two entries, the transcript of the first one missing: the
\* second one is returned
C23_Witness ==
  /\ adapter.outcome.done
  /\ adapter.operation = "listConversations" /\ adapter.projectId # <<>>
  /\ Len(adapter.dir.entries) = 2
  /\ adapter.dir.entries[1].kind = "dir"
  /\ adapter.dir.entries[1].transcript = "missing"
  /\ adapter.dir.entries[2].transcript = "ok"
  /\ Len(adapter.outcome.value) = 1
  /\ adapter.outcome.value[1].id = adapter.dir.entries[2].name

\* the messages of the result that are no subagent messages
withoutSubagents(messages) ==
  SelectSeq(messages, LAMBDA message : message.role # "subagent")

\* C24: when the <id>/<id>.jsonl transcript exists, loadConversation parses
\* it and returns its messages, also when <id>.txt exists; the .txt
\* transcript is parsed only when the .jsonl file is missing. (What the load
\* adds to these messages are subagent messages.)
C24_JsonlTakesPrecedence ==
  ( adapter.outcome.done /\ adapter.projectId # <<>> ) =>
    /\ adapter.files.jsonl.state # "missing" =>
         /\ adapter.outcome.parser = "jsonl"
         /\ adapter.outcome.parent = derivableFrom(adapter.files.jsonl.content, 1)
         /\ ~adapter.outcome.threw =>
              withoutSubagents(adapter.outcome.value) = adapter.outcome.parent
    /\ adapter.outcome.parser = "txt" => adapter.files.jsonl.state = "missing"

\* both transcripts are there and give different messages: the result is
\* the two messages of the .jsonl file
C24_Witness ==
  /\ adapter.outcome.done /\ ~adapter.outcome.threw
  /\ adapter.files.jsonl.state = "ok" /\ adapter.files.txt.state = "ok"
  /\ adapter.files.subagents.state = "missing"
  /\ Len(adapter.files.txt.content) = 5
  /\ Len(adapter.outcome.value) = 2
  /\ adapter.outcome.value[2]
       = [role |-> "assistant", content |-> << "Subagent", " ", "x" >>]
  /\ parseTxtTranscriptOf(adapter.files.txt)
       = << [role |-> "user", content |-> << "x", "x" >>],
            [role |-> "assistant", content |-> << "x", "nl", "x" >>] >>

\* no transcript that can be parsed is found: no projectId, no file, or a
\* file that gives no message (unreadable, empty, nothing but bad lines)
nothingParseable ==
  \/ adapter.projectId = <<>>
  \/ adapter.outcome.parser = "none"
  \/ adapter.outcome.parent = <<>>

\* C25: when no transcript that can be parsed is found, loadConversation
\* resolves to an empty array and never to an error. (Subagent messages
\* the load found are not counted against it.)
C25_NothingParseableGivesEmpty ==
  ( adapter.outcome.done /\ nothingParseable ) =>
    ~adapter.outcome.threw /\ withoutSubagents(adapter.outcome.value) = <<>>

\* the ids of the subagent messages of the result, from its k-th message on
RECURSIVE subagentIdsFrom(_, _)
subagentIdsFrom(messages, k) ==
  IF k > Len(messages) THEN <<>>
  ELSE ( IF messages[k].role = "subagent" THEN << messages[k].subagent.id >>
         ELSE <<>> ) \o subagentIdsFrom(messages, k + 1)

\* C26: a subagent file that cannot be read is skipped: the load does not
\* fail, returns the messages of the parent, has no subagent message for
\* the unreadable file and has one for every readable subagent file.
C26_UnreadableSubagentSkipped ==
  ( adapter.outcome.done /\ adapter.outcome.parser # "none"
      /\ adapter.files.subagents.state = "ok" ) =>
    /\ ~adapter.outcome.threw
    /\ withoutSubagents(adapter.outcome.value) = adapter.outcome.parent
    /\ LET ids == subagentIdsFrom(adapter.outcome.value, 1)
       IN  { ids[k] : k \in 1..Len(ids) }
             = { adapter.files.subagents.entries[k].id :
                   k \in { j \in 1..Len(adapter.files.subagents.entries) :
                             /\ adapter.files.subagents.entries[j].jsonl
                             /\ adapter.files.subagents.entries[j].file.state = "ok" } }

\* the messages with the message put in front of the k-th one
insertedBefore(messages, k, message) ==
  SubSeq(messages, 1, k - 1) \o << message >> \o SubSeq(messages, k, Len(messages))

\* the indexes of the user and assistant messages that mention a subagent
references(messages) ==
  { k \in 1..Len(messages) :
      /\ messages[k].role \in { "user", "assistant" }
      /\ mentionsSubagent(messages[k].content) }

\* C27: the message of a subagent is put immediately before the first user
\* or assistant message of the parent whose text contains 'subagent' in any
\* case; when no message of the parent contains it, it is put at the end.
\* (Stated on the loads of one subagent.)
C27_PlacedBeforeFirstMention ==
  ( adapter.first.done /\ Cardinality(adapter.entries) = 1 ) =>
    LET messages == adapter.messages
        subMsg == subagentMessage(
                    subagentOf(CHOOSE e \in adapter.entries : TRUE)[1].sub)
    IN  /\ references(messages) # {} =>
             adapter.first.value
               = insertedBefore(messages,
                                CHOOSE k \in references(messages) :
                                  \A j \in references(messages) : k <= j,
                                subMsg)
        /\ ( \A k \in 1..Len(messages) : ~mentionsSubagent(messages[k].content) ) =>
             adapter.first.value = messages \o << subMsg >>

\* C28: when several subagents are placed, their messages come in the
\* output in the order of their creation, and a place in front of a
\* message that was used for one subagent is not used for another one: no
\* message of the parent has two subagent messages right in front of it.
C28_SlotNotReused ==
  ( adapter.first.done /\ Cardinality(adapter.entries) >= 2 ) =>
    LET value == adapter.first.value
        ids == subagentIdsFrom(value, 1)
    IN  /\ Len(ids) = Cardinality(adapter.entries)
        /\ \A i, j \in 1..Len(ids) :
             i < j => \A a, b \in adapter.entries :
                        ( a.id = ids[i] /\ b.id = ids[j] )
                          => a.birthtime <= b.birthtime
        /\ \A k \in 1..(Len(value) - 2) :
             ~( /\ value[k].role = "subagent"
                /\ value[k + 1].role = "subagent"
                /\ value[k + 2].role # "subagent" )

\* C29: two loads of the same parent with the same subagents, created at
\* different times, give the same sequence, whatever the order in which
\* readdir lists the files.
C29_PlacementDeterministic ==
  ( /\ adapter.first.done /\ adapter.second.done
    /\ \A a, b \in adapter.entries : a # b => a.birthtime # b.birthtime ) =>
    adapter.first.value = adapter.second.value

\* two loads that got the two files in different orders from readdir
\* placed the subagents alike, the older one first
C29_Witness ==
  /\ adapter.first.done /\ adapter.second.done
  /\ Cardinality(adapter.entries) = 2
  /\ adapter.first.order # adapter.second.order
  /\ adapter.first.order[1].birthtime > adapter.first.order[2].birthtime
  /\ adapter.first.value = adapter.second.value
  /\ Len(adapter.messages) = 1
  /\ subagentIdsFrom(adapter.first.value, 1)
       = << adapter.first.order[2].id, adapter.first.order[1].id >>

\* C30: a request to the projects, conversations or single-conversation
\* route that names a source the registry does not know is answered with
\* status 404 and no operation of an adapter is called for it; a request
\* for a conversation of a known source that has no messages is answered
\* with status 200 and an empty array.
C30_UnknownSourceIs404 ==
  \A k \in 1..Len(adapter.responses) :
    LET request == adapter.requests[k]
        response == adapter.responses[k]
    IN  /\ ( /\ request.route \in { "projects", "conversations", "conversation" }
             /\ request.source \notin RegisteredSources ) =>
            /\ ~response.next /\ response.statusCode = 404
            /\ response.error # <<>> /\ response.called = <<>>
        /\ ( /\ request.route = "conversation"
             /\ request.source \in RegisteredSources
             /\ decodeURIComponent(request.conversation) # <<>>
             /\ adapter.results[k] = Returned(<<>>) ) =>
            /\ ~response.next /\ response.statusCode = 200
            /\ response.error = <<>> /\ response.data = <<>>
            /\ response.called[1].operation = "loadConversation"

\* a conversation of an unknown source was asked for, then an empty
\* conversation of a known one
C30_Witness ==
  /\ Len(adapter.responses) = 2
  /\ adapter.requests[1] = Request("conversation", "unknown-source", "conv-1", <<>>)
  /\ adapter.responses[1].statusCode = 404
  /\ adapter.requests[2] = Request("conversation", "cursor", "conv%201", << "proj-1" >>)
  /\ adapter.results[2] = Returned(<<>>)
  /\ adapter.responses[2].statusCode = 200
  /\ adapter.responses[2].data = <<>>
  /\ adapter.responses[2].called[1].conversationId = << "conv 1" >>

\* C31: when the operation of the adapter a request calls rejects with an
\* Error, the request is answered with status 500 and a body whose error is
\* the message of that Error; the requests after it are handled as if it
\* had not happened: one whose operation resolves is answered 200 with what
\* the operation returned.
C31_AdapterThrowIs500 ==
  \A k \in 1..Len(adapter.responses) :
    LET request == adapter.requests[k]
        result == adapter.results[k]
        response == adapter.responses[k]
    IN  callsAdapter(request) =>
          /\ ~response.next /\ response.called # <<>>
          /\ ( result.threw /\ result.value[1].isError ) =>
               /\ response.statusCode = 500
               /\ response.error = << result.value[1].message >>
               /\ response.data = <<>>
          /\ ~result.threw =>
               /\ response.statusCode = 200 /\ response.error = <<>>
               /\ response.data = result.value

\* listProjects rejected with 'Disk read failed' and the request was answered
\* 500 with that message; the next request was answered 200 with the list
C31_Witness ==
  /\ Len(adapter.responses) = 2
  /\ adapter.requests[1] = Request("projects", "cursor", "", <<>>)
  /\ adapter.results[1] = Thrown(TRUE, "Disk read failed")
  /\ adapter.responses[1].statusCode = 500
  /\ adapter.responses[1].error = << "Disk read failed" >>
  /\ adapter.requests[2] = Request("projects", "cursor", "", <<>>)
  /\ adapter.results[2] = Returned(<< [id |-> "item"] >>)
  /\ adapter.responses[2].statusCode = 200
  /\ adapter.responses[2].data = << [id |-> "item"] >>

\* an indented line of the form key: value, its key and its value
isArgumentLine(line) ==
  /\ startsWith(line, "  ")
  /\ colonIdx(Tail(line)) > 1
  /\ isKeyName(SubSeq(Tail(line), 1, colonIdx(Tail(line)) - 1))
keyOfLine(line) == SubSeq(Tail(line), 1, colonIdx(Tail(line)) - 1)
valueOfLine(line) ==
  SubSeq(Tail(line), colonIdx(Tail(line)) + 1, Len(Tail(line)))

\* where the section that begins at line o ends: the next line that is a
\* marker, or the one after the last line
sectionEnd(lines, o) ==
  LET ends == { e \in (o + 1)..Len(lines) : endsSection(lines[e]) }
  IN  IF ends = {} THEN Len(lines) + 1
      ELSE CHOOSE e \in ends : \A f \in ends : e <= f

\* line m of the section continues the argument of line j: it is indented,
\* no argument line, and no argument line and no blank line is between them
continues(lines, j, m) ==
  /\ j < m
  /\ startsWith(lines[m], "  ") /\ ~isArgumentLine(lines[m])
  /\ \A n \in (j + 1)..(m - 1) :
       /\ ~isArgumentLine(lines[n])
       /\ startsWith(lines[n], "  ") \/ trim(lines[n]) # <<>>

\* the args of the section that begins at line o: for every key, the value
\* of the last argument line with the key and the lines that continue it
argsOfSection(lines, o) ==
  LET e == sectionEnd(lines, o)
      last == { j \in (o + 1)..(e - 1) :
                  /\ isArgumentLine(lines[j])
                  /\ \A n \in (j + 1)..(e - 1) :
                       isArgumentLine(lines[n]) =>
                         keyOfLine(lines[n]) # keyOfLine(lines[j]) }
  IN  { [key |-> keyOfLine(lines[j]),
         value |-> join(<< valueOfLine(lines[j]) >>
                          \o [c \in 1..Len(SelectSeq([m \in 1..Len(lines) |-> m],
                                     LAMBDA m : m < e /\ continues(lines, j, m))) |->
                                Tail(lines[SelectSeq([m \in 1..Len(lines) |-> m],
                                     LAMBDA m : m < e /\ continues(lines, j, m))[c]])])] :
        j \in last }

\* the lines a [Tool call] section begins at: the lines of an assistant
\* block that start with [Tool call]
toolCallLines(lines) ==
  { o \in 1..Len(lines) :
      /\ startsWith(lines[o], "[Tool call]")
      /\ \E a \in 1..(o - 1) :
           /\ lines[a] = assistantMarker
           /\ \A n \in (a + 1)..(o - 1) : lines[n] # userMarker }

\* C36: the tool_call message of a [Tool call] section has, for every key
\* of an indented key: value line of the section, the value of the last such
\* line and, joined to it by newlines, the indented lines that follow while
\* the key is active (up to the next key: value line or blank line); indented
\* lines without an active key add nothing; and when the parser is done, one
\* tool_call message was emitted for every [Tool call] section.
C36_ToolCallArgsAccumulated ==
  /\ \A k \in 1..Len(adapter.messages) :
       adapter.messages[k].role = "tool_call" =>
         LET args == adapter.messages[k].toolCall.args
         IN  /\ { args[n] : n \in 1..Len(args) }
                  = argsOfSection(adapter.lines, adapter.origins[k])
             /\ \A m, n \in 1..Len(args) : args[m].key = args[n].key => m = n
  /\ adapter.pos = "done" =>
       /\ { adapter.origins[k] : k \in { n \in 1..Len(adapter.messages) :
                                  adapter.messages[n].role = "tool_call" } }
            = toolCallLines(adapter.lines)
       /\ \A m, n \in 1..Len(adapter.messages) :
            ( /\ adapter.messages[m].role = "tool_call"
              /\ adapter.messages[n].role = "tool_call"
              /\ adapter.origins[m] = adapter.origins[n] ) => m = n

\* the step leaves a loop: the loop and the one the parser is back in
loopExits ==
  { << "user", "loop" >>, << "thinking", "block" >>,
    << "toolcall", "block" >>, << "block", "loop" >>, << "loop", "done" >> }

\* the kind of section that begins with the line
sectionOf(line) ==
  IF line = userMarker THEN "user"
  ELSE IF startsWith(line, "[Thinking]") THEN "thinking"
  ELSE IF startsWith(line, "[Tool call]") THEN "tool_call"
  ELSE IF startsWith(line, "[Tool result]") THEN "tool_result"
  ELSE "assistant"

\* the messages come from lines further and further down, each from a line
\* that begins a section of its role
emittedInOrder ==
  /\ Len(adapter.origins) = Len(adapter.messages)
  /\ \A k \in 1..Len(adapter.messages) :
       /\ adapter.origins[k] \in 1..Len(adapter.lines)
       /\ adapter.origins[k] < adapter.i
       /\ sectionOf(adapter.lines[adapter.origins[k]]) = adapter.messages[k].role
       /\ k > 1 => adapter.origins[k - 1] < adapter.origins[k]

\* what is left to do: the lines not read yet, and the loops to leave
remaining(st) ==
  4 * (Len(st.lines) + 1 - st.i)
    + ( IF st.pos = "done" THEN 0
        ELSE IF st.pos = "loop" THEN 1
        ELSE IF st.pos \in { "block", "user" } THEN 2
        ELSE 3 )

\* C37: every pass of a loop of the parser reads one more line (a step that
\* reads none leaves its loop), the parser terminates on every input (it
\* never reads past the end, every step brings it nearer to the end, and
\* before the end it is in a loop that can take a step), and the messages are in the order of the
\* sections of the input: the assistant text before a marker comes before
\* the message of the marker.
C37_TxtParserTerminatesInOrder ==
  /\ [][ adapter.pos # "start" =>
           /\ \/ adapter'.i = adapter.i + 1
              \/ /\ adapter'.i = adapter.i
                 /\ << adapter.pos, adapter'.pos >> \in loopExits
           /\ remaining(adapter') < remaining(adapter) ]_vars
  /\ [](adapter.i <= Len(adapter.lines) + 1 /\ remaining(adapter) >= 0)
  /\ [](adapter.pos \in { "start", "loop", "user", "block", "thinking",
                           "toolcall", "done" })
  /\ []emittedInOrder

\* the text before the [Tool result] line, the tool result and the text
\* after it became three messages in that order
C37_Witness ==
  /\ adapter.pos = "done"
  /\ adapter.lines = << assistantMarker, << "x" >>,
                        << "[Tool result]", " ", "Read" >>, << "x" >> >>
  /\ Len(adapter.messages) = 3
  /\ adapter.messages[1].role = "assistant"
  /\ adapter.messages[2].role = "tool_result"
  /\ adapter.messages[3].role = "assistant"
  /\ adapter.origins = << 2, 3, 4 >>

\* the message has the optional property: the parts parser writes a missing
\* property as an empty sequence, the other producers leave the field out
carries(message, field) ==
  /\ field \in DOMAIN message
  /\ adapter.producer = "parts" => message[field] # <<>>

\* the optional properties of the message are those of its role
matchesRole(message) ==
  /\ carries(message, "toolCall") <=> message.role = "tool_call"
  /\ carries(message, "toolResult") <=> message.role = "tool_result"
  /\ carries(message, "subagent") <=> message.role = "subagent"

\* C32: every message the event-log parser, the block-transcript parser,
\* the parts parser and the placement of subagents emit has toolCall exactly
\* when its role is tool_call, toolResult exactly when its role is
\* tool_result and subagent exactly when its role is subagent; so have the
\* messages inside a subagent.
C32_PayloadMatchesRole ==
  \A k \in 1..Len(adapter.emitted) :
    /\ matchesRole(adapter.emitted[k])
    /\ adapter.emitted[k].role = "subagent" =>
         \A n \in 1..Len(adapter.emitted[k].subagent.messages) :
           matchesRole(adapter.emitted[k].subagent.messages[n])

\* the block-transcript parser emitted a tool_call with its toolCall and a
\* tool_result with its toolResult
C32_Witness ==
  /\ adapter.producer = "txt"
  /\ Len(adapter.emitted) = 3
  /\ adapter.emitted[1].role = "tool_call"
  /\ adapter.emitted[1].toolCall.name = << "Read" >>
  /\ adapter.emitted[2].role = "tool_result"
  /\ adapter.emitted[2].toolResult.name = << "Read" >>
  /\ adapter.emitted[3].role = "assistant"

\* C40: the result of the load without its subagent messages is the
\* sequence of the parent's messages; it has one subagent message for every
\* subagent file found, each for another file; without subagents it is the
\* sequence of the parent's messages itself.
C40_PlacementKeepsParent ==
  adapter.first.done =>
    LET value == adapter.first.value
        subs == { k \in 1..Len(value) : value[k].role = "subagent" }
    IN  /\ withoutSubagents(value) = adapter.messages
        /\ Cardinality(subs) = Cardinality(adapter.entries)
        /\ { value[k].subagent.id : k \in subs }
             = { entry.id : entry \in adapter.entries }
        /\ adapter.entries = {} => value = adapter.messages

\* two subagents were placed in front of the second of three messages of
\* the parent
C40_Witness ==
  /\ adapter.first.done
  /\ Len(adapter.messages) = 3
  /\ Cardinality(adapter.entries) = 2
  /\ Len(adapter.first.value) = 5
  /\ adapter.first.value[1] = adapter.messages[1]
  /\ adapter.first.value[2].role = "subagent"
  /\ adapter.first.value[3].role = "subagent"
  /\ adapter.first.value[4] = adapter.messages[2]
  /\ adapter.first.value[5] = adapter.messages[3]

\* C38: when the user has selected a conversation and then another one
\* before the first was loaded, and both loads have completed with a
\* response, the conversation handed to ChatContainer is the one selected
\* last, whatever the order of the responses.
C38_LastSelectionWins ==
  ( /\ adapter.selections = 2 /\ adapter.fetches = {}
    /\ adapter.responses = 2 /\ adapter.drops = 0 ) =>
    conversationProp
      = << messagesOfConversation(adapter.conversationInfo[1]) >>

\* the displayed list is, for some number k of applied entries, the slots of
\* the first k entries of the expanded sequence
showsSomePrefix ==
  \E k \in 0..Len(transformedHistoryRef) :
    showsPrefix(displayedHistory, transformedHistoryRef, k)

\* a slot holds a placeholder and the slot after it the message it stands for
showsBothOfPair ==
  \E n \in 1..(Len(displayedHistory) - 1) :
    \E j \in 1..(Len(transformedHistoryRef) - 1) :
      /\ isPlaceholder(displayedHistory[n])
      /\ isPlaceholder(transformedHistoryRef[j])
      /\ sameSlot(displayedHistory[n], transformedHistoryRef[j])
      /\ displayedHistory[n + 1] = transformedHistoryRef[j + 1]

\* the wait of the placeholder in the last slot ends: the same slot now
\* holds the message of the pair (the approved card between the two waits of
\* an approval), every slot before it is as it was, and at most the entry
\* after the pair has been appended
resolvesInPlace(t) ==
  LET n == Len(displayedHistory)
      message == t.transformedHistory[t.i + 1]
      nextMessage == t.transformedHistory[t.i + 2]
  IN  /\ n > 0 /\ Len(displayedHistory') >= n
      /\ SubSeq(displayedHistory', 1, n - 1) = SubSeq(displayedHistory, 1, n - 1)
      /\ IF t.phase = "pending"
           THEN /\ Len(displayedHistory') = n
                /\ sameSlot(displayedHistory'[n], message)
           ELSE /\ Len(displayedHistory') <= n + 1
                /\ displayedHistory'[n] = nextMessage

\* C33: during continuous playback a thinking or approval entry is appended
\* as one slot and after the wait that same slot is replaced by the message
\* that follows it: the displayed list grows by one per pair and never holds
\* both a placeholder and its own resolved message.
C33_PairIsOneSlot ==
  /\ [][ \A t \in timers :
           (waitTimerFires(t) /\ t.phase \in { "thinking", "pending", "approved" })
             => resolvesInPlace(t) ]_vars
  /\ [][ Len(displayedHistory') <= Len(displayedHistory) + 1 ]_vars
  /\ [](showsSomePrefix /\ ~showsBothOfPair)
  /\ [](Finished => Len(displayedHistory) = Len(chatHistory))

\* playback has finished on a conversation with a text answer and a function
\* call: each pair has ended as one slot holding its message
C33_Witness ==
  /\ Finished /\ timers = {}
  /\ \E j \in 1..Len(transformedHistoryRef) :
       transformedHistoryRef[j].role = "thinking"
  /\ \E j \in 1..Len(transformedHistoryRef) :
       transformedHistoryRef[j].role = "approval"
  /\ Len(displayedHistory) = 2
  /\ \A n \in 1..2 : displayedHistory[n] = transformedHistoryRef[2 * n]

\* the approval card of a function call, and the message of that call
isApprovalCard(message, status) ==
  message.role = "approval" /\ message.approval = status

isToolCallOf(message, card) ==
  message.id = card.functionCallToApprove /\ hasFunctionCall(message)

\* C35: during continuous playback an approval slot shows status pending,
\* then status approved, and then the tool_call message, in that order: a
\* pending card is followed in its slot by the approved card only, an
\* approved card by its tool call only, and a tool call comes into a slot
\* only over its approved card.
C35_PendingApprovedToolCall ==
  [][ \A n \in 1..Len(displayedHistory') :
        LET shown == displayedHistory'[n]
            new == n > Len(displayedHistory)
            was == displayedHistory[n]
        IN  /\ (new /\ shown.role = "approval")
                 => isApprovalCard(shown, "pending")
            /\ (~new /\ isApprovalCard(was, "pending"))
                 => \/ shown = was
                    \/ shown = [was EXCEPT !.approval = "approved"]
            /\ (~new /\ isApprovalCard(was, "approved"))
                 => \/ shown = was
                    \/ isToolCallOf(shown, was)
            /\ (hasFunctionCall(shown) /\ (new \/ shown # was))
                 => /\ ~new
                    /\ isApprovalCard(was, "approved")
                    /\ isToolCallOf(shown, was) ]_vars

\* the slot of a function call has gone through the approved card and shows
\* the tool call; the wait after the pending card was "pending", the wait
\* after the approved card "approved"
C35_Witness ==
  /\ \E n \in 1..Len(displayedHistory) : hasFunctionCall(displayedHistory[n])
  /\ \A n \in 1..Len(displayedHistory) : ~isPlaceholder(displayedHistory[n])
  /\ playState = "playing"
  /\ \E t \in timers : t.kind = "wait" /\ t.phase = "regular"

\* what the firing of a pending timer does to the state of the chain
effectOf(t) ==
  IF t.kind = "start" THEN continueAnimation(timerFrame(t))
  ELSE IF t.kind = "resume"
    THEN IF animationInProgressRef
            /\ currentIndexRef < Len(transformedHistoryRef)
           THEN continueAnimation(timerFrame(t))
           ELSE timerFrame(t)
  ELSE IF animationTimeoutRef = null THEN afterLoop(timerFrame(t))
  ELSE afterWait(timerFrame(t), t.i, t.phase)

\* the continuation behind a pending timer is live: when the timer fires it
\* moves the cursor or writes to the displayed list
isLive(t) ==
  \/ effectOf(t).displayedHistory # displayedHistory
  \/ effectOf(t).currentIndexRef # currentIndexRef

\* C34: at every moment at most one timer chain is live: after a start, a
\* resume or a restart (also a second restart, or a pause followed by resume,
\* before the first continuation has run) there are never two pending
\* continuations that would both advance the cursor or append to the
\* displayed list.
C34_OneLiveChain ==
  Cardinality({ t \in timers : isLive(t) }) <= 1

\* every message of the raw conversation is displayed once, in order, and
\* nothing else is
showsEveryMessageOnce ==
  /\ Len(displayedHistory) = Len(chatHistory)
  /\ \A n \in 1..Len(displayedHistory) :
       /\ displayedHistory[n].id = n
       /\ displayedHistory[n].parts = chatHistory[n].parts
       /\ ~isPlaceholder(displayedHistory[n])

\* C39: once play is started on a finite expanded sequence and the user does
\* nothing more, then with the timers firing the engine eventually is
\* finished (nothing in progress, no timer pending), with every message of
\* the conversation displayed exactly once, in order, and no placeholder in
\* the displayed list.
C39_PlaybackFinishes ==
  (playState = "playing" /\ timers # {})
    ~> (~animationInProgressRef /\ timers = {} /\ showsEveryMessageOnce)

\* playback of three messages, pairs among them, has run to its end
C39_Witness ==
  /\ Finished /\ timers = {}
  /\ Len(chatHistory) = MaxLen + 1
  /\ Len(transformedHistoryRef) > Len(chatHistory)
  /\ showsEveryMessageOnce

visibilityOf(settings) ==
  << settings.showThinking, settings.showToolCalls, settings.showToolResults >>

TypeOK ==
  /\ loading \in BOOLEAN
  /\ currentIndexRef \in 0..(2 * MaxLen)
  /\ Len(displayedHistory) <= MaxDisplayed + 1
  /\ Cardinality(timers) <= MaxTimers
====
